---------------------------- MODULE Spec2Model ----------------------------
(***************************************************************************)
(* wsidicom: the pixel-data stream of a WSI instance file (writer, offset  *)
(* tables, reader) and the dataset classification of                       *)
(* wsidicom/instance/dataset.py.                                           *)
(*                                                                         *)
(* The file is modelled byte by byte: integers are written little-endian   *)
(* and read back by decoding the bytes.  File offsets are absolute; the    *)
(* bytes before the pixel-data element (preamble, magic marker) are not    *)
(* stored, only their length (base).                                       *)
(***************************************************************************)
EXTENDS Integers, Sequences, FiniteSets, TLC

VARIABLES
    \* ---- inputs of one write ----
    frames,            \* test_data: the encoded tiles, in raster order
    offset_table,      \* OffsetTableType requested: "NONE", "BASIC", "EXTENDED"
    base,              \* file offset at which the pixel-data element starts
    workers,           \* worker count given to the frame-writing step
    chunk_size,        \* chunk size given to the frame-writing step
    \* ---- the writer ----
    pc,                \* position in write_table / write
    file,              \* bytes of the sink from offset base on
    table_start,       \* <<>> (None) or <<offset>>
    pixel_data_start,  \* offset following the reserved tables
    positions,         \* offsets returned by the frame-writing step
    pixel_data_end,    \* <<>> or <<offset of the closing delimiter>>
    completed,         \* order in which the pool finished the last chunk
    \* ---- the reader ----
    parsed,            \* result of _parse_pixel_data, or <<>> before it ran
    read,              \* <<>> or <<[index, status, bytes]>>: the last read_frame
    \* ---- dataset classification ----
    dataset,           \* the pydicom dataset handed to is_supported_wsi_dicom
    transfer_syntax_supported,  \* pillow_handler.supports_transfer_syntax(...)
    strict,            \* settings.strict_attribute_check
    outcome,           \* outcome of the classification under each strict mode
    history,           \* outcomes of the classifications made in a row
    \* ---- the WsiDataset ----
    wsi,               \* attributes of a WsiDataset: name -> <<>> (None) or <<v>>
    cache,             \* values kept by its cached properties
    call,              \* the last call made on it and what came of it
    built,             \* <<>> or <<a requirement built by a caller>>
    \* ---- class-level operations ----
    base_dataset,      \* the base dataset given to create_instance_dataset
    datasets,          \* the list given to check_duplicate_dataset
    files,             \* the list of files given to OpticalManager.open
    manager            \* <<>> or <<the OpticalManager that open returned>>

fileVars == <<frames, offset_table, base, workers, chunk_size, pc, file,
              table_start, pixel_data_start, positions, pixel_data_end,
              completed, parsed, read>>
dsVars == <<dataset, transfer_syntax_supported, strict, outcome, history>>
wsiVars == <<wsi, cache, call, built>>
classVars == <<base_dataset, datasets, files, manager>>
vars == <<fileVars, dsVars, wsiVars, classVars>>

---------------------------------------------------------------------------
(* Bounds of the model *)

MaxFrames == 2
MaxFrameLen == 3
MaxChunk == 2
MaxWorkers == 2
MaxMissing == 1
MaxCalls == 3
MaxFrameCount == 4
MaxSide == 2
MaxTileSide == 2
MaxPlanes == 4
MaxPlane == 6
MaxScale == 2
MaxMatrix == 3
MaxDatasets == 4
MaxFocalPlanes == 2
MaxFiles == 2
MaxPaths == 1

---------------------------------------------------------------------------
(* Byte-level constants *)

TAG_BYTES == 4
LENGTH_BYTES == 4
BOT_ITEM_LENGTH == 4
EOT_ITEM_LENGTH == 8
PREAMBLE_BYTES == 128

ItemTag == <<254, 255, 0, 224>>                      \* (FFFE,E000)
SequenceDelimiterTag == <<254, 255, 221, 224>>       \* (FFFE,E0DD)
PixelDataTag == <<224, 127, 16, 0>>                  \* (7FE0,0010)
ExtendedOffsetTableTag == <<224, 127, 1, 0>>         \* (7FE0,0001)
ExtendedOffsetTableLengthsTag == <<224, 127, 2, 0>>  \* (7FE0,0002)
UndefinedLength == <<255, 255, 255, 255>>
Magic == <<68, 73, 67, 77>>                          \* "DICM"
VR_OB == <<79, 66, 0, 0>>                            \* "OB" + 2 reserved bytes
VR_OV == <<79, 86, 0, 0>>                            \* "OV" + 2 reserved bytes

Min(a, b) == IF a < b THEN a ELSE b
Max(a, b) == IF a > b THEN a ELSE b

RECURSIVE LE(_, _)
\* n as w little-endian bytes
LE(n, w) == IF w = 0 THEN <<>> ELSE <<n % 256>> \o LE(n \div 256, w - 1)

Zeros(w) == [i \in 1..w |-> 0]

RECURSIVE Concat(_)
Concat(ss) == IF ss = <<>> THEN <<>> ELSE Head(ss) \o Concat(Tail(ss))

\* sink.tell() at the end of the sink
EndOf(f) == base + Len(f)

\* w bytes are available at offset p
InFile(f, p, w) == p >= base /\ p + w <= EndOf(f)

Bytes(f, p, w) == [i \in 1..w |-> f[p - base + i]]

RECURSIVE ReadLE(_, _, _)
\* the w bytes at offset p decoded little-endian
ReadLE(f, p, w) ==
    IF w = 0 THEN 0 ELSE f[p - base + 1] + 256 * ReadLE(f, p + 1, w - 1)

\* seek(p); write(bytes): overwrites, and extends the sink at its end
WriteAt(f, p, bytes) ==
    [i \in 1..Max(Len(f), p - base + Len(bytes)) |->
        IF i > p - base /\ i <= p - base + Len(bytes)
        THEN bytes[i - (p - base)] ELSE f[i]]

---------------------------------------------------------------------------
(* The writer *)

\* a frame's payload as written: one trailing zero byte if its length is odd
Padded(frame) == IF Len(frame) % 2 = 1 THEN frame \o <<0>> ELSE frame

\* one frame Item: tag, 4-byte length, padded payload
FrameItem(frame) ==
    ItemTag \o LE(Len(Padded(frame)), LENGTH_BYTES) \o Padded(frame)

\* a reservation with one byte per frame in place of four
ReserveBotOneBytePerFrame(n) ==
    ItemTag \o LE(n, LENGTH_BYTES) \o Zeros(n)

\* _reserve_bot: one Item of 4 * frame_count zero bytes
ReserveBot(n) ==
    ItemTag \o LE(BOT_ITEM_LENGTH * n, LENGTH_BYTES) \o Zeros(BOT_ITEM_LENGTH * n)

\* a reservation whose lengths element has 4-byte entries, as a basic table
ReserveEotShortLengths(n) ==
    ExtendedOffsetTableTag \o VR_OV \o LE(EOT_ITEM_LENGTH * n, LENGTH_BYTES)
        \o Zeros(EOT_ITEM_LENGTH * n)
    \o ExtendedOffsetTableLengthsTag \o VR_OV \o LE(BOT_ITEM_LENGTH * n, LENGTH_BYTES)
        \o Zeros(BOT_ITEM_LENGTH * n)

\* _reserve_eot: two elements of 8 * frame_count zero bytes each
ReserveEot(n) ==
    ExtendedOffsetTableTag \o VR_OV \o LE(EOT_ITEM_LENGTH * n, LENGTH_BYTES)
        \o Zeros(EOT_ITEM_LENGTH * n)
    \o ExtendedOffsetTableLengthsTag \o VR_OV \o LE(EOT_ITEM_LENGTH * n, LENGTH_BYTES)
        \o Zeros(EOT_ITEM_LENGTH * n)

\* opening of the pixel-data element: tag, VR, undefined length
PixelDataHeader == PixelDataTag \o VR_OB \o UndefinedLength

\* bytes reserved after the pixel-data header for the requested table
Reserved(n, table) ==
    CASE table = "BASIC" -> ReserveBot(n)
      [] table = "EXTENDED" -> ReserveEot(n)
      [] OTHER -> <<>>

\* value stored in a table for a frame Item at offset position
TableOffset(position, pds) == position - pds + TAG_BYTES + LENGTH_BYTES

\* _write_bot: the Item with the real 4-byte offsets
BotBytes(pds, pos) ==
    ItemTag \o LE(BOT_ITEM_LENGTH * Len(pos), LENGTH_BYTES)
    \o Concat([k \in 1..Len(pos) |-> LE(TableOffset(pos[k], pds), BOT_ITEM_LENGTH)])

\* length of frame k as the writer knows it: from the positions and the end
EotLength(pos, pde, k) ==
    (IF k < Len(pos) THEN pos[k + 1] ELSE pde) - pos[k] - TAG_BYTES - LENGTH_BYTES

\* _write_eot: the two elements with the real 8-byte offsets and lengths
EotBytes(pds, pos, pde) ==
    ExtendedOffsetTableTag \o VR_OV \o LE(EOT_ITEM_LENGTH * Len(pos), LENGTH_BYTES)
    \o Concat([k \in 1..Len(pos) |-> LE(TableOffset(pos[k], pds), EOT_ITEM_LENGTH)])
    \o ExtendedOffsetTableLengthsTag \o VR_OV
    \o LE(EOT_ITEM_LENGTH * Len(pos), LENGTH_BYTES)
    \o Concat([k \in 1..Len(pos) |-> LE(EotLength(pos, pde, k), EOT_ITEM_LENGTH)])

\* a patch written where the frames start
PatchStartAtPixelData == pixel_data_start

\* where the patch is written: write_table hands table_start to _write_bot/_write_eot
PatchStart == table_start[1]

\* frame offsets write_table expects: position + tag + length
ExpectedOffset(position) == position + TAG_BYTES + LENGTH_BYTES

\* frame lengths write_table expects: divisible by 2
ExpectedLength(frame) == 2 * ((Len(frame) + 1) \div 2)

\* expected_frame_index of write_table
ExpectedFrameIndex ==
    [k \in 1..Len(positions) |->
        <<ExpectedOffset(positions[k]), ExpectedLength(frames[k])>>]

---------------------------------------------------------------------------
(* The reader *)

Failed(error) == [status |-> error, index |-> <<>>, type |-> "NONE",
                  unpopulated |-> FALSE]

Parsed(index, type, unpopulated) ==
    [status |-> "ok", index |-> index, type |-> type,
     unpopulated |-> unpopulated]

TagAt(f, p) == Bytes(f, p, TAG_BYTES)

RECURSIVE ScanItems(_, _, _, _)
\* linear scan of the Items from offset p up to the Sequence-Delimiter item:
\* <<TRUE, index>> or <<FALSE, error>>; left bounds the Items still admitted
ScanItems(f, p, acc, left) ==
    IF ~InFile(f, p, TAG_BYTES + LENGTH_BYTES) THEN <<FALSE, "CorruptFile">>
    ELSE IF TagAt(f, p) = SequenceDelimiterTag THEN <<TRUE, acc>>
    ELSE IF TagAt(f, p) # ItemTag THEN <<FALSE, "MalformedStream">>
    ELSE IF left = 0 THEN <<FALSE, "FrameCountMismatch">>
    ELSE LET length == ReadLE(f, p + TAG_BYTES, LENGTH_BYTES)
             payload == p + TAG_BYTES + LENGTH_BYTES
         IN  IF ~InFile(f, payload, length) THEN <<FALSE, "CorruptFile">>
             ELSE ScanItems(f, payload + length,
                            Append(acc, <<payload, length>>), left - 1)

\* the frame index built by scanning every Item; n frames are expected
ScanFrames(f, p, n, type, unpopulated) ==
    LET scan == ScanItems(f, p, <<>>, n)
    IN  IF ~scan[1] THEN Failed(scan[2])
        ELSE IF Len(scan[2]) # n THEN Failed("CorruptFile")
        ELSE Parsed(scan[2], type, unpopulated)

\* a table entry must point just behind the header of a frame Item
ItemHeaderBefore(f, payload) ==
    /\ InFile(f, payload - TAG_BYTES - LENGTH_BYTES, TAG_BYTES + LENGTH_BYTES)
    /\ TagAt(f, payload - TAG_BYTES - LENGTH_BYTES) = ItemTag

\* BASIC table at offset p (an Item of length 4 * n): n 4-byte offsets from
\* the first frame Item; the frame lengths are read from the Item headers
ParseBot(f, p, n) ==
    LET first == p + TAG_BYTES + LENGTH_BYTES + BOT_ITEM_LENGTH * n
        entry(k) == ReadLE(f, p + TAG_BYTES + LENGTH_BYTES
                              + BOT_ITEM_LENGTH * (k - 1), BOT_ITEM_LENGTH)
    IN  IF ~InFile(f, p + TAG_BYTES + LENGTH_BYTES, BOT_ITEM_LENGTH * n)
        THEN Failed("CorruptFile")
        ELSE IF \A k \in 1..n : entry(k) = 0
        THEN ScanFrames(f, first, n, "BASIC", TRUE)
        ELSE IF \E k \in 1..n : ~InFile(f, first + entry(k), 0)
        THEN Failed("CorruptFile")
        ELSE IF \E k \in 1..n : ~ItemHeaderBefore(f, first + entry(k))
        THEN Failed("MalformedStream")
        ELSE Parsed([k \in 1..n |->
                        <<first + entry(k),
                          ReadLE(f, first + entry(k) - LENGTH_BYTES, LENGTH_BYTES)>>],
                    "BASIC", FALSE)

\* header of an explicit-VR element: tag, VR and 2 reserved bytes, 4-byte length
ELEMENT_HEADER_BYTES == 12

\* EXTENDED tables at offset p: n 8-byte offsets, then the lengths element
\* with n 8-byte lengths
ParseEot(f, p, n) ==
    LET size == EOT_ITEM_LENGTH * n
        offsets == p + ELEMENT_HEADER_BYTES
        second == offsets + size
        lengths == second + ELEMENT_HEADER_BYTES
        first == lengths + size
        offset(k) == ReadLE(f, offsets + EOT_ITEM_LENGTH * (k - 1), EOT_ITEM_LENGTH)
        length(k) == ReadLE(f, lengths + EOT_ITEM_LENGTH * (k - 1), EOT_ITEM_LENGTH)
    IN  IF ~InFile(f, p, ELEMENT_HEADER_BYTES + size + ELEMENT_HEADER_BYTES + size)
        THEN Failed("CorruptFile")
        ELSE IF ReadLE(f, p + TAG_BYTES + 4, LENGTH_BYTES) # size
        THEN Failed("TableLengthMismatch")
        ELSE IF TagAt(f, second) # ExtendedOffsetTableLengthsTag
        THEN Failed("MalformedStream")
        ELSE IF ReadLE(f, second + TAG_BYTES + 4, LENGTH_BYTES) # size
        THEN Failed("TableLengthMismatch")
        ELSE IF \E k \in 1..n : ~InFile(f, first + offset(k), length(k))
        THEN Failed("CorruptFile")
        ELSE IF \E k \in 1..n : ~ItemHeaderBefore(f, first + offset(k))
        THEN Failed("MalformedStream")
        ELSE Parsed([k \in 1..n |-> <<first + offset(k), length(k)>>],
                    "EXTENDED", FALSE)

\* _parse_pixel_data for a pixel-data element at offset p holding n frames
ParsePixelData(f, p, n) ==
    LET sub == p + ELEMENT_HEADER_BYTES
    IN  IF ~InFile(f, p, ELEMENT_HEADER_BYTES) THEN Failed("CorruptFile")
        ELSE IF TagAt(f, p) # PixelDataTag THEN Failed("MalformedStream")
        ELSE IF Bytes(f, p + TAG_BYTES + 4, LENGTH_BYTES) # UndefinedLength
        THEN \* defined length: one frame filling the declared length
             Parsed(<< <<sub, ReadLE(f, p + TAG_BYTES + 4, LENGTH_BYTES)>> >>,
                    "NONE", FALSE)
        ELSE IF ~InFile(f, sub, TAG_BYTES + LENGTH_BYTES) THEN Failed("CorruptFile")
        ELSE IF TagAt(f, sub) = ItemTag
                /\ ReadLE(f, sub + TAG_BYTES, LENGTH_BYTES) # 0
                /\ ReadLE(f, sub + TAG_BYTES, LENGTH_BYTES) = BOT_ITEM_LENGTH * n
        THEN ParseBot(f, sub, n)
        ELSE IF TagAt(f, sub) = ExtendedOffsetTableTag
        THEN ParseEot(f, sub, n)
        ELSE ScanFrames(f, sub, n, "NONE", FALSE)

\* read_frame(i), i counted from 0, on a parsed file
ReadFrame(f, result, i) ==
    IF result.status # "ok" \/ i < 0 \/ i >= Len(result.index)
    THEN [index |-> i, status |-> "RangeError", bytes |-> <<>>]
    ELSE IF ~InFile(f, result.index[i + 1][1], result.index[i + 1][2])
    THEN [index |-> i, status |-> "CorruptFile", bytes |-> <<>>]
    ELSE [index |-> i, status |-> "ok",
          bytes |-> Bytes(f, result.index[i + 1][1], result.index[i + 1][2])]

---------------------------------------------------------------------------
(* The dataset: requirement table and classification *)

\* values of the enum ImageType
ImageType == {"VOLUME", "LABEL", "OVERVIEW"}

\* WsiAttributeRequirement(requirement, image_type, default); image_types is
\* the empty tuple when no image type is given, default <<>> (None) when no
\* default is given and <<value>> otherwise
Req(requirement, image_types, default) ==
    [requirement |-> requirement, image_types |-> image_types,
     default |-> default]

ALWAYS_NAMES ==
    {"SOPClassUID", "SOPInstanceUID", "StudyInstanceUID", "SeriesInstanceUID",
     "Rows", "Columns", "SamplesPerPixel", "PhotometricInterpretation",
     "TotalPixelMatrixColumns", "TotalPixelMatrixRows", "ImageType"}

STRICT_NAMES ==
    {"SharedFunctionalGroupsSequence", "FrameOfReferenceUID", "FocusMethod",
     "ExtendedDepthOfField", "OpticalPathSequence", "ImagedVolumeWidth",
     "ImagedVolumeHeight", "ImagedVolumeDepth"}

\* the STRICT entries given image type VOLUME
STRICT_VOLUME_NAMES ==
    {"SharedFunctionalGroupsSequence", "FocusMethod", "ExtendedDepthOfField",
     "ImagedVolumeWidth", "ImagedVolumeHeight", "ImagedVolumeDepth"}

STANDARD_NAMES ==
    {"TotalPixelMatrixFocalPlanes", "NumberOfOpticalPaths", "NumberOfFrames",
     "Modality", "Manufacturer", "ManufacturerModelName", "DeviceSerialNumber",
     "SoftwareVersions", "BitsAllocated", "BitsStored", "HighBit",
     "PixelRepresentation", "TotalPixelMatrixOriginSequence",
     "ImageOrientationSlide", "AcquisitionDateTime", "LossyImageCompression",
     "VolumetricProperties", "SpecimenLabelInImage", "BurnedInAnnotation",
     "ContentDate", "ContentTime", "InstanceNumber",
     "DimensionOrganizationSequence", "ContainerIdentifier",
     "SpecimenDescriptionSequence", "SpacingBetweenSlices",
     "SOPInstanceUIDOfConcatenationSource", "DimensionOrganizationType",
     "NumberOfFocalPlanes", "DistanceBetweenFocalPlanes", "SliceThickness"}

\* the default given to an entry of the table
DefaultOf(name) ==
    CASE name \in {"FocusMethod"} -> <<"AUTO">>
      [] name \in {"ExtendedDepthOfField", "SpecimenLabelInImage",
                   "BurnedInAnnotation"} -> <<"NO">>
      [] name \in {"TotalPixelMatrixFocalPlanes", "NumberOfOpticalPaths",
                   "NumberOfFrames", "NumberOfFocalPlanes"} -> <<1>>
      [] name = "Modality" -> <<"SM">>
      [] name = "ImageOrientationSlide" -> <<<<0, 1, 0, 1, 0, 0>>>>
      [] name = "VolumetricProperties" -> <<"VOLUME">>
      [] name \in {"SpacingBetweenSlices", "DistanceBetweenFocalPlanes"} -> <<0>>
      [] name = "DimensionOrganizationType" -> <<"TILED_SPARSE">>
      [] OTHER -> <<>>

WSI_ATTRIBUTES ==
    [name \in ALWAYS_NAMES \cup STRICT_NAMES \cup STANDARD_NAMES |->
        Req(IF name \in ALWAYS_NAMES THEN "ALWAYS"
            ELSE IF name \in STRICT_NAMES THEN "STRICT" ELSE "STANDARD",
            IF name \in STRICT_VOLUME_NAMES THEN {"VOLUME"} ELSE {},
            DefaultOf(name))]

\* an evaluation that requires STRICT entries whatever the strict mode
EvaluateIgnoringMode(attribute, image_type, strict_attribute_check) ==
    IF attribute.requirement \in {"ALWAYS", "STRICT"}
    THEN image_type \in attribute.image_types
    ELSE FALSE

\* WsiAttributeRequirement.evaluate: is the attribute required for image_type
Evaluate(attribute, image_type, strict_attribute_check) ==
    IF attribute.requirement = "ALWAYS"
       \/ (attribute.requirement = "STRICT" /\ strict_attribute_check)
    THEN image_type \in attribute.image_types
    ELSE FALSE

\* _get_image_type: <<TRUE, image type>>, or <<FALSE, the exception raised>>
GetImageType(wsi_type) ==
    IF Len(wsi_type) < 3 THEN <<FALSE, "IndexError">>
    ELSE IF wsi_type[3] \notin ImageType THEN <<FALSE, "ValueError">>
    ELSE <<TRUE, wsi_type[3]>>

\* is_supported_wsi_dicom: an image type, "None", or the exception raised
IsSupportedWsiDicom(ds, syntax_supported, strict_attribute_check) ==
    IF "SOPClassUID" \notin ds.present THEN "AttributeError"
    ELSE IF ds.sop # "WSI_SOP_CLASS_UID" THEN "None"
    ELSE IF "ImageType" \notin ds.present THEN "AttributeError"
    ELSE LET image_type == GetImageType(ds.image_type)
         IN  IF ~image_type[1]
             THEN IF image_type[2] = "ValueError" THEN "None" ELSE image_type[2]
             ELSE IF \E name \in DOMAIN WSI_ATTRIBUTES :
                        /\ name \notin ds.present
                        /\ Evaluate(WSI_ATTRIBUTES[name], image_type[2],
                                    strict_attribute_check)
             THEN "None"
             ELSE IF ~syntax_supported THEN "None"
             ELSE image_type[2]

\* image-type descriptors a dataset may carry
Descriptors ==
    {<<"ORIGINAL", "PRIMARY", t, "NONE">> :
        t \in ImageType \cup {"THUMBNAIL"}}
    \cup {<<"ORIGINAL", "PRIMARY", "VOLUME">>, <<"ORIGINAL", "PRIMARY">>}

RECURSIVE SubsetsUpTo(_, _)
\* the subsets of S with at most k elements
SubsetsUpTo(S, k) ==
    IF k = 0 THEN {{}}
    ELSE LET smaller == SubsetsUpTo(S, k - 1)
         IN  smaller \cup {m \cup {x} : m \in smaller, x \in S}

\* no class-level operation is in use
IdleClass ==
    /\ base_dataset = <<>>
    /\ datasets = <<>>
    /\ files = <<>>
    /\ manager = <<>>

\* datasets: every attribute of the table but at most MaxMissing of them
Datasets ==
    {[present |-> DOMAIN WSI_ATTRIBUTES \ missing,
      sop |-> IF "SOPClassUID" \in missing THEN "" ELSE sop,
      image_type |-> IF "ImageType" \in missing THEN <<>> ELSE descriptor] :
        missing \in SubsetsUpTo(DOMAIN WSI_ATTRIBUTES, MaxMissing),
        sop \in {"WSI_SOP_CLASS_UID", "OTHER_SOP_CLASS_UID"},
        descriptor \in Descriptors}

IdleFile ==
    /\ frames = <<>>
    /\ offset_table = "NONE"
    /\ base = 0
    /\ workers = 1
    /\ chunk_size = 1
    /\ pc = "idle"
    /\ file = <<>>
    /\ table_start = <<>>
    /\ pixel_data_start = 0
    /\ positions = <<>>
    /\ pixel_data_end = <<>>
    /\ completed = <<>>
    /\ parsed = <<>>
    /\ read = <<>>

InitDataset ==
    /\ IdleClass
    /\ dataset \in Datasets
    /\ transfer_syntax_supported \in BOOLEAN
    /\ strict = FALSE
    /\ outcome = [s \in BOOLEAN |-> "unset"]
    /\ history = <<>>
    /\ IdleFile
    /\ wsi = <<>>
    /\ cache = <<>>
    /\ call = <<>>
    /\ built = <<>>

\* settings.strict_attribute_check is set by the application
SetStrict ==
    /\ strict' = ~strict
    /\ history' = <<>>
    /\ UNCHANGED <<dataset, transfer_syntax_supported, outcome, fileVars,
                   wsiVars, classVars>>

\* a classification that consumes an attribute it has looked at
ClassifyConsuming ==
    /\ Len(history) < MaxCalls
    /\ outcome' = [outcome EXCEPT ![strict] =
                      IsSupportedWsiDicom(dataset, transfer_syntax_supported, strict)]
    /\ history' = Append(history, outcome'[strict])
    /\ dataset' = [dataset EXCEPT !.present = @ \ {"ImagedVolumeWidth"}]
    /\ UNCHANGED <<transfer_syntax_supported, strict, fileVars, wsiVars,
                   classVars>>

\* WsiDataset.is_supported_wsi_dicom(dataset, transfer_syntax): the dataset
\* is only read (getattr, "name not in dataset")
Classify ==
    /\ Len(history) < MaxCalls
    /\ outcome' = [outcome EXCEPT ![strict] =
                      IsSupportedWsiDicom(dataset, transfer_syntax_supported, strict)]
    /\ history' = Append(history, outcome'[strict])
    /\ UNCHANGED <<dataset, transfer_syntax_supported, strict, fileVars,
                   wsiVars, classVars>>

NextDataset == SetStrict \/ Classify

SpecDataset == InitDataset /\ [][NextDataset]_vars

---------------------------------------------------------------------------
(* Inputs of a write *)

OffsetTableType == {"NONE", "BASIC", "EXTENDED"}

\* frame lengths: short frames of either parity, and frames as long as a
\* basic offset table for MaxFrames frames
FrameLengths == (1..MaxFrameLen) \cup {BOT_ITEM_LENGTH * MaxFrames - 1,
                                       BOT_ITEM_LENGTH * MaxFrames}

\* payload of frame i (counted from 1): "data" bytes are non-zero and differ
\* between frames and places; "offsets" bytes spell the 4-byte value 8
FrameBytes(fill, i, length) ==
    [j \in 1..length |->
        IF fill = "data" THEN 16 * i + j
        ELSE IF (j - 1) % 4 = 0 THEN TAG_BYTES + LENGTH_BYTES ELSE 0]

FrameSets ==
    UNION {{[i \in 1..n |-> FrameBytes(fill, i, lengths[i])] :
                lengths \in [1..n -> FrameLengths], fill \in {"data", "offsets"}} :
           n \in 1..MaxFrames}

\* the pixel-data element starts the sink (write_table) or follows the
\* preamble and the magic marker (write)
Bases == {0, PREAMBLE_BYTES + Len(Magic)}

IdleDataset ==
    /\ dataset = [present |-> {}, sop |-> "", image_type |-> <<>>]
    /\ transfer_syntax_supported = TRUE
    /\ strict = FALSE
    /\ outcome = [s \in BOOLEAN |-> "unset"]
    /\ history = <<>>

IdleWsi ==
    /\ wsi = <<>>
    /\ cache = <<>>
    /\ call = <<>>
    /\ built = <<>>

Init ==
    /\ IdleClass
    /\ frames \in FrameSets
    /\ offset_table \in OffsetTableType
    /\ base \in Bases
    /\ workers \in 1..MaxWorkers
    /\ chunk_size \in 1..MaxChunk
    /\ pc = "start"
    /\ file = <<>>
    /\ table_start = <<>>
    /\ pixel_data_start = 0
    /\ positions = <<>>
    /\ pixel_data_end = <<>>
    /\ completed = <<>>
    /\ parsed = <<>>
    /\ read = <<>>
    /\ IdleDataset
    /\ IdleWsi

---------------------------------------------------------------------------
(* Steps of write_table / write, and of the reader *)

\* _write_pixel_data_start(number_of_frames, offset_table)
WritePixelDataStart ==
    /\ pc = "start"
    /\ file' = PixelDataHeader \o Reserved(Len(frames), offset_table)
    /\ table_start' = IF offset_table = "NONE" THEN <<>>
                      ELSE <<base + Len(PixelDataHeader)>>
    /\ pixel_data_start' = base + Len(file')
    /\ pc' = "frames"
    /\ UNCHANGED <<frames, offset_table, base, workers, chunk_size, positions,
                   pixel_data_end, completed, parsed, read, dsVars, wsiVars,
                   classVars>>

\* orders in which a pool of w workers may finish the submitted tiles
CompletionOrders(submitted, w) ==
    IF w = 1 THEN {submitted}
    ELSE {order \in [1..Len(submitted) -> {submitted[j] : j \in 1..Len(submitted)}] :
            \A a, b \in 1..Len(submitted) : a # b => order[a] # order[b]}

\* results written as the workers finish
WriteOrderAsCompleted(submitted, order) == order

\* the order in which a chunk's results are written: the order of submission
WriteOrder(submitted, order) == submitted

RECURSIVE ItemPositions(_, _, _)
\* offsets of the Items of the tiles ts when written one after another from p
ItemPositions(p, ts, fs) ==
    IF ts = <<>> THEN <<>>
    ELSE <<p>> \o ItemPositions(p + Len(FrameItem(fs[Head(ts)])), Tail(ts), fs)

\* one chunk of _write_pixel_data: the pool encodes the chunk's tiles, the
\* results are written one after another and each Item's offset is recorded
WriteChunk ==
    /\ pc = "frames"
    /\ Len(positions) < Len(frames)
    /\ LET done == Len(positions)
           size == Min(chunk_size, Len(frames) - done)
           submitted == [j \in 1..size |-> done + j]
       IN  \E order \in CompletionOrders(submitted, workers) :
             LET written == WriteOrder(submitted, order)
             IN  /\ file' = file \o Concat([j \in 1..size |->
                                               FrameItem(frames[written[j]])])
                 /\ positions' = positions
                                   \o ItemPositions(EndOf(file), written, frames)
                 /\ completed' = order
    /\ UNCHANGED <<frames, offset_table, base, workers, chunk_size, pc,
                   table_start, pixel_data_start, pixel_data_end, parsed, read,
                   dsVars, wsiVars, classVars>>

\* pixel_data_end = tell(); _write_pixel_data_end()
WritePixelDataEnd ==
    /\ pc = "frames"
    /\ Len(positions) = Len(frames)
    /\ pixel_data_end' = <<EndOf(file)>>
    /\ file' = file \o SequenceDelimiterTag \o LE(0, LENGTH_BYTES)
    /\ pc' = IF offset_table = "NONE" THEN "written" ELSE "patch"
    /\ UNCHANGED <<frames, offset_table, base, workers, chunk_size,
                   table_start, pixel_data_start, positions, completed, parsed,
                   read, dsVars, wsiVars, classVars>>

\* _write_bot / _write_eot: seek to the table and write the real values
WriteTable ==
    /\ pc = "patch"
    /\ file' = WriteAt(file, PatchStart,
                       IF offset_table = "BASIC"
                       THEN BotBytes(pixel_data_start, positions)
                       ELSE EotBytes(pixel_data_start, positions, pixel_data_end[1]))
    /\ pc' = "written"
    /\ UNCHANGED <<frames, offset_table, base, workers, chunk_size,
                   table_start, pixel_data_start, positions, pixel_data_end,
                   completed, parsed, read, dsVars, wsiVars, classVars>>

\* the reader opens the file: _parse_pixel_data()
ParseFile ==
    /\ pc = "written"
    /\ parsed' = <<ParsePixelData(file, base, Len(frames))>>
    /\ pc' = "parsed"
    /\ UNCHANGED <<frames, offset_table, base, workers, chunk_size, file,
                   table_start, pixel_data_start, positions, pixel_data_end,
                   completed, read, dsVars, wsiVars, classVars>>

\* read_frame(i), also with the first index out of range
ReadFrameStep ==
    /\ pc = "parsed"
    /\ \E i \in 0..Len(frames) : read' = <<ReadFrame(file, parsed[1], i)>>
    /\ UNCHANGED <<frames, offset_table, base, workers, chunk_size, pc, file,
                   table_start, pixel_data_start, positions, pixel_data_end,
                   completed, parsed, dsVars, wsiVars, classVars>>

Next ==
    \/ WritePixelDataStart
    \/ WriteChunk
    \/ WritePixelDataEnd
    \/ WriteTable
    \/ ParseFile
    \/ ReadFrameStep

Spec == Init /\ [][Next]_vars

---------------------------------------------------------------------------
(* The WsiDataset: attributes, requirements and their defaults *)

\* A dataset is a function from the names of the attributes it contains to
\* their values: <<>> for None (an element without value), <<v>> otherwise.

\* name in dataset
Contains(ds, name) == name \in DOMAIN ds

\* getattr(dataset, name, None)
GetAttr(ds, name) == IF name \in DOMAIN ds THEN ds[name] ELSE <<>>

\* dataset.name = value
SetAttr(ds, name, value) ==
    [n \in DOMAIN ds \cup {name} |-> IF n = name THEN <<value>> ELSE ds[n]]

\* a del that leaves the attribute in
DelAttrKeeping(ds, name) == ds

\* del dataset[name]
DelAttr(ds, name) == [n \in DOMAIN ds \ {name} |-> ds[n]]

\* what a call comes to: a returned value (<<>> for None) or a raised error
Return(value) == [ok |-> TRUE, value |-> value]
Raise(error) == [ok |-> FALSE, value |-> error]

Requirement == {"ALWAYS", "STRICT", "STANDARD"}

\* a get_default that hands out the default before it looks at the severity
GetDefaultDefaultFirst(attribute, image_type, strict_attribute_check) ==
    IF attribute.default # <<>> THEN Return(attribute.default)
    ELSE IF attribute.requirement = "ALWAYS"
            /\ image_type \in attribute.image_types
    THEN Raise("WsiDicomRequirementError")
    ELSE IF /\ strict_attribute_check
            /\ attribute.requirement = "STRICT"
            /\ image_type \in attribute.image_types
    THEN Raise("WsiDicomStrictRequirementError")
    ELSE Return(attribute.default)

\* WsiAttributeRequirement.get_default
GetDefault(attribute, image_type, strict_attribute_check) ==
    IF attribute.requirement = "ALWAYS"
       /\ image_type \in attribute.image_types
    THEN Raise("WsiDicomRequirementError")
    ELSE IF /\ strict_attribute_check
            /\ attribute.requirement = "STRICT"
            /\ image_type \in attribute.image_types
    THEN Raise("WsiDicomStrictRequirementError")
    ELSE Return(attribute.default)

\* WsiDataset.image_type: _get_image_type(self.ImageType)
ImageTypeOf(self) ==
    IF GetAttr(self, "ImageType") = <<>> THEN Raise("AttributeError")
    ELSE LET image_type == GetImageType(self["ImageType"][1])
         IN  IF image_type[1] THEN Return(image_type[2])
             ELSE Raise(image_type[2])

\* WsiDataset._get_dicom_attribute(name, dataset): the table entry is looked
\* up before self.image_type is evaluated
GetDicomAttribute(self, name, ds, strict_attribute_check) ==
    LET value == GetAttr(ds, name)
    IN  IF value # <<>> THEN Return(value)
        ELSE IF name \notin DOMAIN WSI_ATTRIBUTES THEN Raise("KeyError")
        ELSE IF ~ImageTypeOf(self).ok THEN ImageTypeOf(self)
        ELSE GetDefault(WSI_ATTRIBUTES[name], ImageTypeOf(self).value,
                        strict_attribute_check)

\* attributes holding numbers, and the value a stored attribute has in the
\* datasets below (none of them is the default of its attribute)
NumberNames ==
    {"Rows", "Columns", "SamplesPerPixel", "TotalPixelMatrixColumns",
     "TotalPixelMatrixRows", "ImagedVolumeWidth", "ImagedVolumeHeight",
     "ImagedVolumeDepth", "TotalPixelMatrixFocalPlanes",
     "NumberOfOpticalPaths", "NumberOfFrames", "BitsAllocated", "BitsStored",
     "HighBit", "PixelRepresentation", "InstanceNumber",
     "SpacingBetweenSlices", "NumberOfFocalPlanes",
     "DistanceBetweenFocalPlanes", "SliceThickness"}

StoredValue(name, image_type) ==
    CASE name = "ImageType" -> <<"ORIGINAL", "PRIMARY", image_type, "NONE">>
      [] name = "ImageOrientationSlide" -> <<1, 0, 0, 0, 1, 0>>
      [] name \in NumberNames -> 2
      [] OTHER -> "stored"

\* datasets for reading attributes: every attribute of the table is stored
\* with a value, but one, which is absent, stored without a value, or
\* stored with a value as well
AttributeDatasets ==
    {[n \in DOMAIN WSI_ATTRIBUTES \ (IF state = "absent" THEN {name} ELSE {}) |->
         IF n = name /\ state = "none" THEN <<>>
         ELSE <<StoredValue(n, image_type)>>] :
        image_type \in ImageType,
        name \in DOMAIN WSI_ATTRIBUTES \ {"ImageType"},
        state \in {"absent", "none", "stored"}}

\* requirements a caller can build: WsiAttributeRequirement(requirement,
\* image_type, default)
BuiltRequirements ==
    {Req(requirement, image_types, default) :
        requirement \in Requirement,
        image_types \in SUBSET ImageType,
        default \in {<<>>, <<1>>}}

InitAttribute ==
    /\ IdleClass
    /\ wsi \in AttributeDatasets
    /\ cache = <<>>
    /\ call = <<>>
    /\ built = <<>>
    /\ IdleDataset
    /\ IdleFile

InitRequirement ==
    /\ IdleClass
    /\ IdleWsi
    /\ IdleDataset
    /\ IdleFile

\* WsiAttributeRequirement(requirement, image_type, default)
BuildRequirement ==
    /\ \E requirement \in BuiltRequirements : built' = <<requirement>>
    /\ call' = <<>>
    /\ UNCHANGED <<wsi, cache, strict, dataset, transfer_syntax_supported,
                   outcome, history, fileVars, classVars>>

\* requirement.get_default(image_type), on an entry of the table or on a
\* requirement built by a caller
AskDefault ==
    /\ \E name \in DOMAIN WSI_ATTRIBUTES \cup {"built"}, image_type \in ImageType :
          /\ name = "built" => built # <<>>
          /\ LET attribute == IF name = "built" THEN built[1]
                               ELSE WSI_ATTRIBUTES[name]
             IN  call' = <<[op |-> "get_default", attribute |-> attribute,
                            image_type |-> image_type, strict |-> strict,
                            outcome |-> GetDefault(attribute, image_type,
                                                   strict)]>>
    /\ UNCHANGED <<wsi, cache, built, strict, dataset,
                   transfer_syntax_supported, outcome, history, fileVars,
                   classVars>>

\* self._get_dicom_attribute(name)
ReadAttribute ==
    /\ \E name \in DOMAIN WSI_ATTRIBUTES :
            call' = <<[op |-> "_get_dicom_attribute", name |-> name,
                       strict |-> strict,
                       outcome |-> GetDicomAttribute(wsi, name, wsi, strict)]>>
    /\ UNCHANGED <<wsi, cache, built, strict, dataset,
                   transfer_syntax_supported, outcome, history, fileVars,
                   classVars>>

\* settings.strict_attribute_check is set by the application
SetStrictAttributeCheck ==
    /\ strict' = ~strict
    /\ call' = <<>>
    /\ UNCHANGED <<wsi, cache, built, dataset, transfer_syntax_supported,
                   outcome, history, fileVars, classVars>>

NextAttribute == ReadAttribute \/ SetStrictAttributeCheck

SpecAttribute == InitAttribute /\ [][NextAttribute]_vars

NextRequirement == BuildRequirement \/ AskDefault \/ SetStrictAttributeCheck

SpecRequirement == InitRequirement /\ [][NextRequirement]_vars

---------------------------------------------------------------------------
(* The WsiDataset: derived fields (cached properties) *)

\* geometry.Size and the two operations used on it
Size(width, height) == [width |-> width, height |-> height]
CeilDiv(size, divider) ==
    Size((size.width + divider.width - 1) \div divider.width,
         (size.height + divider.height - 1) \div divider.height)
CeilDivInt(size, divider) ==
    Size((size.width + divider - 1) \div divider,
         (size.height + divider - 1) \div divider)
Area(size) == size.width * size.height

TileType == {"TILED_FULL", "TILED_SPARSE"}

\* A derived field is a cached property: its value is computed on the first
\* read that returns, kept in the instance, and handed out by later reads.
\* Reading a field gives what the read comes to (out) and the cache after it.
Kept(c, name, value) ==
    [n \in DOMAIN c \cup {name} |-> IF n = name THEN value ELSE c[n]]
ReadAs(out, c) == [out |-> out, cache |-> c]
FromCache(c, name) == ReadAs(Return(c[name]), c)

\* WsiDataset.frame_count
FrameCountOf(self, c, strict_attribute_check) ==
    IF "frame_count" \in DOMAIN c THEN FromCache(c, "frame_count")
    ELSE LET frame_count == GetDicomAttribute(self, "NumberOfFrames", self,
                                              strict_attribute_check)
         IN  IF ~frame_count.ok THEN ReadAs(frame_count, c)
             ELSE ReadAs(Return(frame_count.value[1]),
                         Kept(c, "frame_count", frame_count.value[1]))

\* a tile type that looks at the per-frame groups before the marker
TileTypePerFrameFirst(self, c, strict_attribute_check) ==
    IF "tile_type" \in DOMAIN c THEN FromCache(c, "tile_type")
    ELSE LET tile_type == GetDicomAttribute(self, "DimensionOrganizationType",
                                            self, strict_attribute_check)
             frame_count == FrameCountOf(self, c, strict_attribute_check)
         IN  IF ~tile_type.ok THEN ReadAs(tile_type, c)
             ELSE IF Contains(self, "PerFrameFunctionalGroupsSequence")
             THEN ReadAs(Return("TILED_SPARSE"),
                         Kept(c, "tile_type", "TILED_SPARSE"))
             ELSE IF tile_type.value = <<"TILED_FULL">>
             THEN ReadAs(Return("TILED_FULL"), Kept(c, "tile_type", "TILED_FULL"))
             ELSE IF ~frame_count.out.ok THEN frame_count
             ELSE IF frame_count.out.value = 1
             THEN ReadAs(Return("TILED_FULL"),
                         Kept(frame_count.cache, "tile_type", "TILED_FULL"))
             ELSE ReadAs(Raise("WsiDicomError: Undetermined tile type"),
                         frame_count.cache)

\* WsiDataset.tile_type
TileTypeOf(self, c, strict_attribute_check) ==
    IF "tile_type" \in DOMAIN c THEN FromCache(c, "tile_type")
    ELSE LET tile_type == GetDicomAttribute(self, "DimensionOrganizationType",
                                            self, strict_attribute_check)
             frame_count == FrameCountOf(self, c, strict_attribute_check)
         IN  IF ~tile_type.ok THEN ReadAs(tile_type, c)
             ELSE IF tile_type.value = <<"TILED_FULL">>
             THEN ReadAs(Return("TILED_FULL"), Kept(c, "tile_type", "TILED_FULL"))
             ELSE IF Contains(self, "PerFrameFunctionalGroupsSequence")
             THEN ReadAs(Return("TILED_SPARSE"),
                         Kept(c, "tile_type", "TILED_SPARSE"))
             ELSE IF ~frame_count.out.ok THEN frame_count
             ELSE IF frame_count.out.value = 1
             THEN ReadAs(Return("TILED_FULL"),
                         Kept(frame_count.cache, "tile_type", "TILED_FULL"))
             ELSE ReadAs(Raise("WsiDicomError: Undetermined tile type"),
                         frame_count.cache)

\* WsiDataset.tile_size: Size(self.Columns, self.Rows)
TileSizeOf(self, c) ==
    IF "tile_size" \in DOMAIN c THEN FromCache(c, "tile_size")
    ELSE IF ~Contains(self, "Columns") \/ ~Contains(self, "Rows")
    THEN ReadAs(Raise("AttributeError"), c)
    ELSE IF self["Columns"] = <<>> \/ self["Rows"] = <<>>
    THEN ReadAs(Raise("TypeError"), c)
    ELSE ReadAs(Return(Size(self["Columns"][1], self["Rows"][1])),
                Kept(c, "tile_size", Size(self["Columns"][1], self["Rows"][1])))

\* an image_size that overrides the size of a mismatching image of any type
ImageSizeOverridingAlways(self, c, strict_attribute_check) ==
    IF "image_size" \in DOMAIN c THEN FromCache(c, "image_size")
    ELSE IF ~Contains(self, "TotalPixelMatrixColumns")
            \/ ~Contains(self, "TotalPixelMatrixRows")
    THEN ReadAs(Raise("AttributeError"), c)
    ELSE IF self["TotalPixelMatrixColumns"] = <<>>
            \/ self["TotalPixelMatrixRows"] = <<>>
    THEN ReadAs(Raise("TypeError"), c)
    ELSE LET image_size == Size(self["TotalPixelMatrixColumns"][1],
                                self["TotalPixelMatrixRows"][1])
             tile_type == TileTypeOf(self, c, strict_attribute_check)
             tile_size == TileSizeOf(self, tile_type.cache)
             frame_count == FrameCountOf(self, tile_size.cache,
                                         strict_attribute_check)
         IN  IF image_size.width <= 0 \/ image_size.height <= 0
             THEN ReadAs(Raise("WsiDicomError: Image size is zero"), c)
             ELSE IF ~tile_type.out.ok THEN tile_type
             ELSE IF tile_type.out.value # "TILED_FULL"
             THEN ReadAs(Return(image_size),
                         Kept(tile_type.cache, "image_size", image_size))
             ELSE IF ~tile_size.out.ok THEN tile_size
             ELSE IF tile_size.out.value.width = 0
                     \/ tile_size.out.value.height = 0
             THEN ReadAs(Raise("ZeroDivisionError"), tile_size.cache)
             ELSE IF ~frame_count.out.ok THEN frame_count
             ELSE IF Area(CeilDiv(image_size, tile_size.out.value))
                        = frame_count.out.value
             THEN ReadAs(Return(image_size),
                         Kept(frame_count.cache, "image_size", image_size))
             ELSE ReadAs(Return(tile_size.out.value),
                         Kept(frame_count.cache, "image_size",
                              tile_size.out.value))

\* WsiDataset.image_size
ImageSizeOf(self, c, strict_attribute_check) ==
    IF "image_size" \in DOMAIN c THEN FromCache(c, "image_size")
    ELSE IF ~Contains(self, "TotalPixelMatrixColumns")
            \/ ~Contains(self, "TotalPixelMatrixRows")
    THEN ReadAs(Raise("AttributeError"), c)
    ELSE IF self["TotalPixelMatrixColumns"] = <<>>
            \/ self["TotalPixelMatrixRows"] = <<>>
    THEN ReadAs(Raise("TypeError"), c)
    ELSE LET image_size == Size(self["TotalPixelMatrixColumns"][1],
                                self["TotalPixelMatrixRows"][1])
             tile_type == TileTypeOf(self, c, strict_attribute_check)
             tile_size == TileSizeOf(self, tile_type.cache)
             frame_count == FrameCountOf(self, tile_size.cache,
                                         strict_attribute_check)
         IN  IF image_size.width <= 0 \/ image_size.height <= 0
             THEN ReadAs(Raise("WsiDicomError: Image size is zero"), c)
             ELSE IF ~tile_type.out.ok THEN tile_type
             ELSE IF tile_type.out.value # "TILED_FULL"
             THEN ReadAs(Return(image_size),
                         Kept(tile_type.cache, "image_size", image_size))
             ELSE IF ~tile_size.out.ok THEN tile_size
             ELSE IF tile_size.out.value.width = 0
                     \/ tile_size.out.value.height = 0
             THEN ReadAs(Raise("ZeroDivisionError"), tile_size.cache)
             ELSE IF ~frame_count.out.ok THEN frame_count
             ELSE IF Area(CeilDiv(image_size, tile_size.out.value))
                        = frame_count.out.value
             THEN ReadAs(Return(image_size),
                         Kept(frame_count.cache, "image_size", image_size))
             ELSE IF ImageTypeOf(self).value = "VOLUME"
                     \/ frame_count.out.value # 1
             THEN ReadAs(Raise("WsiDicomError: Image size does not match"),
                         frame_count.cache)
             ELSE ReadAs(Return(tile_size.out.value),
                         Kept(frame_count.cache, "image_size",
                              tile_size.out.value))

\* datasets for reading the geometry: marker, per-frame groups and frame
\* count in every combination, pixel matrix and tile of every small size
Markers == {<<>>, <<"TILED_FULL">>, <<"TILED_SPARSE">>}
FrameCounts == {<<>>} \cup {<<n>> : n \in 1..MaxFrameCount}

GeometryDataset(image_type, marker, per_frame, number_of_frames, matrix, tile) ==
    [n \in {"ImageType", "TotalPixelMatrixColumns", "TotalPixelMatrixRows",
            "Columns", "Rows"}
           \cup (IF marker = <<>> THEN {} ELSE {"DimensionOrganizationType"})
           \cup (IF per_frame THEN {"PerFrameFunctionalGroupsSequence"} ELSE {})
           \cup (IF number_of_frames = <<>> THEN {} ELSE {"NumberOfFrames"}) |->
        CASE n = "ImageType" -> <<StoredValue("ImageType", image_type)>>
          [] n = "TotalPixelMatrixColumns" -> <<matrix.width>>
          [] n = "TotalPixelMatrixRows" -> <<matrix.height>>
          [] n = "Columns" -> <<tile.width>>
          [] n = "Rows" -> <<tile.height>>
          [] n = "DimensionOrganizationType" -> marker
          [] n = "PerFrameFunctionalGroupsSequence" -> <<"frames">>
          [] n = "NumberOfFrames" -> number_of_frames]

GeometryDatasets ==
    {GeometryDataset(image_type, marker, per_frame, number_of_frames,
                     Size(w, h), Size(tw, th)) :
        image_type \in ImageType, marker \in Markers, per_frame \in BOOLEAN,
        number_of_frames \in FrameCounts, w \in 0..MaxSide, h \in 0..MaxSide,
        tw \in 1..MaxTileSide, th \in 1..MaxTileSide}

InitGeometry ==
    /\ IdleClass
    /\ wsi \in GeometryDatasets
    /\ cache = <<>>
    /\ call = <<>>
    /\ built = <<>>
    /\ IdleDataset
    /\ IdleFile

\* a read of a derived field: what it comes to, and what the instance keeps
ReadField(op, r) ==
    /\ call' = <<[op |-> op, first |-> op \notin DOMAIN cache,
                  outcome |-> r.out]>>
    /\ cache' = r.cache
    /\ UNCHANGED <<wsi, built, dsVars, fileVars, classVars>>

ReadFrameCount == ReadField("frame_count", FrameCountOf(wsi, cache, strict))
ReadTileType == ReadField("tile_type", TileTypeOf(wsi, cache, strict))
ReadTileSize == ReadField("tile_size", TileSizeOf(wsi, cache))
ReadImageSize == ReadField("image_size", ImageSizeOf(wsi, cache, strict))

NextGeometry ==
    ReadFrameCount \/ ReadTileType \/ ReadTileSize \/ ReadImageSize

SpecGeometry == InitGeometry /\ [][NextGeometry]_vars

---------------------------------------------------------------------------
(* Focal planes: spacing between slices *)

\* Focal planes are given in um as whole multiples of the threshold
\* settings.focal_plane_distance_threshold; a value in mm is the fraction
\* num / den.
focal_plane_distance_threshold == 1
Fraction(num, den) == [num |-> num, den |-> den]

Abs(x) == IF x < 0 THEN 0 - x ELSE x

RECURSIVE Insert(_, _)
Insert(x, sorted) ==
    IF sorted = <<>> THEN <<x>>
    ELSE IF x <= Head(sorted) THEN <<x>> \o sorted
    ELSE <<Head(sorted)>> \o Insert(x, Tail(sorted))

RECURSIVE Sorted(_)
\* sorted(focal_planes)
Sorted(values) ==
    IF values = <<>> THEN <<>> ELSE Insert(Head(values), Sorted(Tail(values)))

\* the loop of _get_spacing_between_slices_for_focal_planes from index on:
\* spacing is <<>> (None) until the first difference is taken
RECURSIVE SpacingLoop(_, _, _)
SpacingLoop(sorted_focal_planes, index, spacing) ==
    IF index > Len(sorted_focal_planes) - 1 THEN Return(spacing)
    ELSE LET this_spacing == sorted_focal_planes[index + 1]
                               - sorted_focal_planes[index]
         IN  IF spacing = <<>>
             THEN SpacingLoop(sorted_focal_planes, index + 1, <<this_spacing>>)
             ELSE IF Abs(spacing[1] - this_spacing)
                        > focal_plane_distance_threshold
             THEN Raise("NotImplementedError: non-equal spacing")
             ELSE SpacingLoop(sorted_focal_planes, index + 1, spacing)

\* a spacing taken over the planes in the order given
SpacingUnsorted(focal_planes) ==
    IF Len(focal_planes) = 1 THEN Return(Fraction(0, 1))
    ELSE LET spacing == SpacingLoop(focal_planes, 1, <<>>)
         IN  IF ~spacing.ok THEN spacing
             ELSE IF spacing.value = <<>>
             THEN Raise("ValueError: Could not calculate spacings")
             ELSE Return(Fraction(spacing.value[1], 1000))

\* WsiDataset._get_spacing_between_slices_for_focal_planes
SpacingBetweenSlices(focal_planes) ==
    IF Len(focal_planes) = 1 THEN Return(Fraction(0, 1))
    ELSE LET spacing == SpacingLoop(Sorted(focal_planes), 1, <<>>)
         IN  IF ~spacing.ok THEN spacing
             ELSE IF spacing.value = <<>>
             THEN Raise("ValueError: Could not calculate spacings")
             ELSE Return(Fraction(spacing.value[1], 1000))

\* lists of at most MaxPlanes focal planes at 0..MaxPlane
FocalPlaneLists ==
    UNION {[1..n -> 0..MaxPlane] : n \in 0..MaxPlanes}

InitSpacing ==
    /\ IdleClass
    /\ IdleWsi
    /\ IdleDataset
    /\ IdleFile

\* WsiDataset._get_spacing_between_slices_for_focal_planes(focal_planes)
ComputeSpacing ==
    /\ call = <<>>
    /\ \E focal_planes \in FocalPlaneLists :
          call' = <<[op |-> "spacing", focal_planes |-> focal_planes,
                     outcome |-> SpacingBetweenSlices(focal_planes)]>>
    /\ UNCHANGED <<wsi, cache, built, dsVars, fileVars, classVars>>

NextSpacing == ComputeSpacing

SpecSpacing == InitSpacing /\ [][NextSpacing]_vars

---------------------------------------------------------------------------
(* The WsiDataset: as_tiled_full *)

\* A sequence of one item is modelled by the item, itself a dataset.
SHARED == "SharedFunctionalGroupsSequence"
MEASURES == "PixelMeasuresSequence"
PER_FRAME == "PerFrameFunctionalGroupsSequence"

\* geometry.SizeMm.from_tuple(values)
SizeMmFromTuple(values) == [width |-> values[1], height |-> values[2]]

\* WsiDataset.pixel_measure; the instance keeps a reference to the item
\* ("item") or None ("None"), the item being read through the reference
PixelMeasureOf(self, c, strict_attribute_check) ==
    IF "pixel_measure" \in DOMAIN c
    THEN ReadAs(Return(IF c["pixel_measure"] = "None" THEN <<>>
                       ELSE <<self[SHARED][1][MEASURES][1]>>), c)
    ELSE LET shared_functional_group ==
                 GetDicomAttribute(self, SHARED, self, strict_attribute_check)
         IN  IF ~shared_functional_group.ok
             THEN ReadAs(shared_functional_group, c)
             ELSE IF shared_functional_group.value = <<>>
             THEN ReadAs(Return(<<>>), Kept(c, "pixel_measure", "None"))
             ELSE LET pixel_measure_sequence ==
                          GetDicomAttribute(self, MEASURES,
                                            shared_functional_group.value[1],
                                            strict_attribute_check)
                  IN  IF ~pixel_measure_sequence.ok
                      THEN ReadAs(pixel_measure_sequence, c)
                      ELSE IF pixel_measure_sequence.value = <<>>
                      THEN ReadAs(Return(<<>>),
                                  Kept(c, "pixel_measure", "None"))
                      ELSE ReadAs(pixel_measure_sequence,
                                  Kept(c, "pixel_measure", "item"))

\* WsiDataset.pixel_spacing
PixelSpacingOf(self, c, strict_attribute_check) ==
    IF "pixel_spacing" \in DOMAIN c THEN FromCache(c, "pixel_spacing")
    ELSE LET pixel_measure == PixelMeasureOf(self, c, strict_attribute_check)
             pixel_spacing_values ==
                 GetAttr(pixel_measure.out.value[1], "PixelSpacing")
         IN  IF ~pixel_measure.out.ok THEN pixel_measure
             ELSE IF pixel_measure.out.value = <<>>
             THEN ReadAs(Return(<<>>),
                         Kept(pixel_measure.cache, "pixel_spacing", <<>>))
             ELSE IF pixel_spacing_values = <<>>
             THEN ReadAs(Return(<<>>),
                         Kept(pixel_measure.cache, "pixel_spacing", <<>>))
             ELSE IF \E i \in 1..Len(pixel_spacing_values[1]) :
                        pixel_spacing_values[1][i] = 0
             THEN ReadAs(Return(<<>>),
                         Kept(pixel_measure.cache, "pixel_spacing", <<>>))
             ELSE ReadAs(Return(<<SizeMmFromTuple(pixel_spacing_values[1])>>),
                         Kept(pixel_measure.cache, "pixel_spacing",
                              <<SizeMmFromTuple(pixel_spacing_values[1])>>))

\* WsiDataset.mm_depth
MmDepthOf(self, c, strict_attribute_check) ==
    IF "mm_depth" \in DOMAIN c THEN FromCache(c, "mm_depth")
    ELSE LET mm_depth == GetDicomAttribute(self, "ImagedVolumeDepth", self,
                                           strict_attribute_check)
         IN  IF ~mm_depth.ok THEN ReadAs(mm_depth, c)
             ELSE ReadAs(mm_depth, Kept(c, "mm_depth", mm_depth.value))

\* WsiDataset.number_of_focal_planes
NumberOfFocalPlanesOf(self, c, strict_attribute_check) ==
    IF "number_of_focal_planes" \in DOMAIN c
    THEN FromCache(c, "number_of_focal_planes")
    ELSE LET planes == GetDicomAttribute(self, "TotalPixelMatrixFocalPlanes",
                                         self, strict_attribute_check)
         IN  IF ~planes.ok THEN ReadAs(planes, c)
             ELSE ReadAs(Return(planes.value[1]),
                         Kept(c, "number_of_focal_planes", planes.value[1]))

\* WsiDataset.slice_thickness (not cached): SliceThickness of the pixel
\* measure, or of the dataset itself when there is no pixel measure; the
\* imaged-volume depth is used only when an AttributeError was raised
SliceThicknessOf(self, c, strict_attribute_check) ==
    LET pixel_measure == PixelMeasureOf(self, c, strict_attribute_check)
        thickness ==
            GetDicomAttribute(self, "SliceThickness",
                              IF pixel_measure.out.value = <<>> THEN self
                              ELSE pixel_measure.out.value[1],
                              strict_attribute_check)
        mm_depth == MmDepthOf(self, pixel_measure.cache, strict_attribute_check)
        planes == NumberOfFocalPlanesOf(self, mm_depth.cache,
                                        strict_attribute_check)
    IN  IF ~pixel_measure.out.ok /\ pixel_measure.out.value # "AttributeError"
        THEN pixel_measure
        ELSE IF pixel_measure.out.ok /\ thickness.ok
        THEN ReadAs(thickness, pixel_measure.cache)
        ELSE IF pixel_measure.out.ok /\ thickness.value # "AttributeError"
        THEN ReadAs(thickness, pixel_measure.cache)
        ELSE IF ~mm_depth.out.ok THEN mm_depth
        ELSE IF mm_depth.out.value = <<>> THEN ReadAs(Return(<<>>), mm_depth.cache)
        ELSE IF ~planes.out.ok THEN planes
        ELSE ReadAs(Return(<<Fraction(mm_depth.out.value[1], planes.out.value)>>),
                    planes.cache)

\* A local variable of the code is a value computed once: it is bound by
\* x \in {value}, and the result is the one element of {result : x \in {value}}.

\* as_tiled_full, the shared functional group of the copy: the plane position
\* of the first focal plane, and the pixel measures with the scaled pixel
\* spacing, the spacing between slices and the slice thickness
TiledFullShared(marked, c, focal_planes, scale, strict_attribute_check) ==
    LET shared_functional_group ==
            IF Contains(marked, SHARED) THEN marked[SHARED][1] ELSE <<>>
        pixel_measure ==
            IF Contains(shared_functional_group, MEASURES)
            THEN shared_functional_group[MEASURES][1] ELSE <<>>
        spacing == SpacingBetweenSlices(focal_planes)
        Thickness(pixel_spacing) ==
            SliceThicknessOf(marked, pixel_spacing.cache,
                             strict_attribute_check)
        Grouped(pixel_spacing, slice_thickness) ==
            LET with_spacing ==
                    IF pixel_spacing.out.value = <<>> THEN pixel_measure
                    ELSE SetAttr(pixel_measure, "PixelSpacing",
                             <<pixel_spacing.out.value[1].width * scale,
                               pixel_spacing.out.value[1].height * scale>>)
                with_slices ==
                    SetAttr(with_spacing, "SpacingBetweenSlices",
                            spacing.value)
                with_thickness ==
                    IF slice_thickness.out.value = <<>> THEN with_slices
                    ELSE SetAttr(with_slices, "SliceThickness",
                                 slice_thickness.out.value[1])
            IN  Return([dataset |->
                          SetAttr(marked, SHARED,
                            SetAttr(SetAttr(shared_functional_group,
                                "PlanePositionSlideSequence",
                                [ZOffsetInSlideCoordinateSystem |->
                                     focal_planes[1]]),
                              MEASURES, with_thickness)),
                        cache |-> slice_thickness.cache])
    IN  CHOOSE grouped \in
          {IF ~pixel_spacing.out.ok THEN pixel_spacing.out
           ELSE IF ~spacing.ok THEN spacing
           ELSE CHOOSE result \in
                  {IF ~slice_thickness.out.ok THEN slice_thickness.out
                   ELSE Grouped(pixel_spacing, slice_thickness) :
                      slice_thickness \in {Thickness(pixel_spacing)}} : TRUE :
              pixel_spacing \in
                  {PixelSpacingOf(marked, c, strict_attribute_check)}} : TRUE

\* as_tiled_full, the counts of the copy: the per-frame groups removed, the
\* focal planes, the optical paths and the frames
TiledFullCounts(grouped, focal_planes, optical_paths, tiled_size, scale) ==
    SetAttr(SetAttr(SetAttr(
        IF Contains(grouped, PER_FRAME) THEN DelAttr(grouped, PER_FRAME)
        ELSE grouped,
        "TotalPixelMatrixFocalPlanes", Len(focal_planes)),
        "NumberOfOpticalPaths", Len(optical_paths)),
        "NumberOfFrames",
        Max(Area(CeilDivInt(tiled_size, scale)), 1)
          * Len(focal_planes) * Len(optical_paths))

\* as_tiled_full, the pixel matrix of the copy: its image_size, scaled
TiledFullMatrix(counted, c, scale, strict_attribute_check) ==
    CHOOSE result \in
      {IF ~image_size.out.ok THEN image_size.out
       ELSE LET scaled_size == CeilDivInt(image_size.out.value, scale)
            IN  Return([dataset |->
                          SetAttr(SetAttr(counted, "TotalPixelMatrixColumns",
                                          Max(scaled_size.width, 1)),
                                  "TotalPixelMatrixRows",
                                  Max(scaled_size.height, 1)),
                        cache |-> image_size.cache]) :
          image_size \in {ImageSizeOf(counted, c, strict_attribute_check)}} :
      TRUE

\* WsiDataset.as_tiled_full(focal_planes, optical_paths, tiled_size, scale)
\* on the instance with attributes self and cache c: the copy starts with
\* both; the derived fields read on the way are read on the copy
AsTiledFull(self, c, focal_planes, optical_paths, tiled_size, scale, strict_attribute_check) ==
    IF focal_planes = <<>> THEN Raise("IndexError")
    ELSE CHOOSE result \in
      {IF ~grouped.ok THEN grouped
       ELSE CHOOSE returned \in
              {TiledFullMatrix(counted, grouped.value.cache, scale,
                               strict_attribute_check) :
                  counted \in {TiledFullCounts(grouped.value.dataset,
                                               focal_planes, optical_paths,
                                               tiled_size, scale)}} : TRUE :
          grouped \in
              {TiledFullShared(marked, c, focal_planes, scale,
                               strict_attribute_check) :
                  marked \in {SetAttr(self, "DimensionOrganizationType",
                                      "TILED_FULL")}}} : TRUE

\* shared functional groups of a source: none, one without pixel measures,
\* one whose pixel measures lack the pixel spacing, a complete one
SharedGroups == {"absent", "bare", "measures", "spacing"}

SharedGroup(shared) ==
    IF shared = "bare"
    THEN [n \in {"PlanePositionSlideSequence"} |->
              <<[ZOffsetInSlideCoordinateSystem |-> 0]>>]
    ELSE [n \in {MEASURES} |->
              <<IF shared = "measures"
                THEN [m \in {"SliceThickness"} |-> <<1>>]
                ELSE [m \in {"PixelSpacing", "SpacingBetweenSlices"} |->
                          IF m = "PixelSpacing" THEN <<<<1, 1>>>> ELSE <<0>>]>>]

\* sources of as_tiled_full: VOLUME or LABEL; FULL, SPARSE, or marked FULL
\* with per-frame groups left in; a matrix that is square or one pixel high;
\* square tiles; a frame count that is left out or is the number of tiles
MatrixSizes ==
    {size \in {Size(w, h) : w, h \in 1..MaxMatrix} :
        size.height \in {1, size.width}}

TiledFullSources ==
    {LET ds == GeometryDataset(image_type, tiling[1], tiling[2],
                               IF counted
                               THEN <<Area(CeilDiv(matrix, Size(t, t)))>>
                               ELSE <<>>,
                               matrix, Size(t, t))
     IN  IF shared = "absent" THEN ds
         ELSE SetAttr(ds, SHARED, SharedGroup(shared)) :
        image_type \in {"VOLUME", "LABEL"},
        tiling \in {<<<<"TILED_FULL">>, FALSE>>, <<<<>>, TRUE>>,
                    <<<<"TILED_FULL">>, TRUE>>},
        counted \in BOOLEAN,
        matrix \in MatrixSizes, t \in 1..MaxTileSide,
        shared \in SharedGroups}

\* arguments of as_tiled_full
TiledFullPlanes == {<<>>, <<0>>, <<1>>, <<1, 0>>, <<0, 1, 3>>}
TiledFullPaths == {<<"0">>, <<"0", "1">>}
TiledSizes == {Size(0, 0), Size(1, 1), Size(2, 1), Size(2, 2)}
Scales == 1..MaxScale

InitTiledFull ==
    /\ IdleClass
    /\ wsi \in TiledFullSources
    /\ cache = <<>>
    /\ call = <<>>
    /\ built = <<>>
    /\ strict \in BOOLEAN
    /\ dataset = [present |-> {}, sop |-> "", image_type |-> <<>>]
    /\ transfer_syntax_supported = TRUE
    /\ outcome = [s \in BOOLEAN |-> "unset"]
    /\ history = <<>>
    /\ IdleFile

\* a derived field of the source is read before as_tiled_full is called
ReadBefore ==
    /\ call = <<>>
    /\ \E field \in {"image_size", "tile_type"} :
          LET after == IF field = "image_size"
                       THEN ImageSizeOf(wsi, cache, strict).cache
                       ELSE TileTypeOf(wsi, cache, strict).cache
          IN  /\ after # cache
              /\ cache' = after
    /\ UNCHANGED <<wsi, call, built, dsVars, fileVars, classVars>>

\* an as_tiled_full that takes a plane at 0 when no focal plane is given
CallAsTiledFullDefaultPlane ==
    /\ call = <<>>
    /\ \E focal_planes \in TiledFullPlanes, optical_paths \in TiledFullPaths,
          tiled_size \in TiledSizes, scale \in Scales :
          call' = <<[op |-> "as_tiled_full", focal_planes |-> focal_planes,
                     optical_paths |-> optical_paths,
                     tiled_size |-> tiled_size, scale |-> scale,
                     outcome |-> AsTiledFull(wsi, cache,
                                    IF focal_planes = <<>> THEN <<0>>
                                    ELSE focal_planes,
                                    optical_paths, tiled_size, scale,
                                    strict)]>>
    /\ UNCHANGED <<wsi, cache, built, dsVars, fileVars, classVars>>

\* self.as_tiled_full(focal_planes, optical_paths, tiled_size, scale): the
\* source and its cache are left as they are
CallAsTiledFull ==
    /\ call = <<>>
    /\ \E focal_planes \in TiledFullPlanes, optical_paths \in TiledFullPaths,
          tiled_size \in TiledSizes, scale \in Scales :
          call' = <<[op |-> "as_tiled_full", focal_planes |-> focal_planes,
                     optical_paths |-> optical_paths,
                     tiled_size |-> tiled_size, scale |-> scale,
                     outcome |-> AsTiledFull(wsi, cache, focal_planes,
                                             optical_paths, tiled_size, scale,
                                             strict)]>>
    /\ UNCHANGED <<wsi, cache, built, dsVars, fileVars, classVars>>

NextTiledFull == ReadBefore \/ CallAsTiledFull

SpecTiledFull == InitTiledFull /\ [][NextTiledFull]_vars

---------------------------------------------------------------------------
(* The WsiDataset: create_instance_dataset *)

\* pydicom.uid: the transfer syntaxes of the compression table, and others
TransferSyntaxes ==
    {"JPEGBaseline8Bit", "JPEG2000", "JPEG2000Lossless", "JPEGLSLossless",
     "ExplicitVRLittleEndian"}

\* generate_uid(prefix=None): a new identifier, none of those in use
BaseUids == {"1.2.826.0.1.1"}
GeneratedUids == {"2.25.1", "2.25.2"}

\* dataset.name = value, for every name of the assignments
Assigned(ds, assignments) ==
    [n \in DOMAIN ds \cup DOMAIN assignments |->
        IF n \in DOMAIN assignments THEN <<assignments[n]>> ELSE ds[n]]

\* a compression table that marks JPEG 2000 lossless as lossy
CompressionAttributesAllLossy(transfer_syntax) ==
    LET bits == "BitsAllocated" :> 8 @@ "BitsStored" :> 8 @@ "HighBit" :> 7
                @@ "PixelRepresentation" :> 0
    IN  bits @@ "LossyImageCompression" :> "01"
             @@ "LossyImageCompressionRatio" :> 1
             @@ "LossyImageCompressionMethod" :>
                    (IF transfer_syntax = "JPEGBaseline8Bit"
                     THEN "ISO_10918_1" ELSE "ISO_15444_1")

\* the compression attributes set for a transfer syntax
CompressionAttributes(transfer_syntax) ==
    LET bits == "BitsAllocated" :> 8 @@ "BitsStored" :> 8 @@ "HighBit" :> 7
                @@ "PixelRepresentation" :> 0
    IN  CASE transfer_syntax = "JPEGBaseline8Bit" ->
                 bits @@ "LossyImageCompression" :> "01"
                      @@ "LossyImageCompressionRatio" :> 1
                      @@ "LossyImageCompressionMethod" :> "ISO_10918_1"
          [] transfer_syntax = "JPEG2000" ->
                 bits @@ "LossyImageCompression" :> "01"
                      @@ "LossyImageCompressionRatio" :> 1
                      @@ "LossyImageCompressionMethod" :> "ISO_15444_1"
          [] transfer_syntax = "JPEG2000Lossless" ->
                 bits @@ "LossyImageCompression" :> "00"

\* a descriptor that takes a pyramid index not given for the base level
ResampledDefaultBase(image_type, pyramid_index) ==
    IF image_type = "VOLUME" /\ pyramid_index \in {<<>>, <<0>>} THEN "NONE"
    ELSE "RESAMPLED"

\* the fourth value of ImageType
Resampled(image_type, pyramid_index) ==
    IF image_type = "VOLUME" /\ pyramid_index = <<0>> THEN "NONE"
    ELSE "RESAMPLED"

\* a pixel spacing that sets no attribute
SpacingAttributesNone(image_type_values, image_data) == <<>>

\* the attributes set from a pixel spacing: the shared functional group with
\* the pixel measures and the frame type, and the imaged volume
SpacingAttributes(image_type_values, image_data) ==
    LET pixel_measure_sequence ==
            "PixelSpacing" :> <<<<image_data.pixel_spacing[1].width,
                                  image_data.pixel_spacing[1].height>>>>
            @@ "SpacingBetweenSlices" :> <<Fraction(0, 1)>>
            @@ "SliceThickness" :> <<Fraction(5, 10000)>>
    IN  SHARED :>
            (MEASURES :> <<pixel_measure_sequence>>
             @@ "WholeSlideMicroscopyImageFrameTypeSequence" :>
                    <<"FrameType" :> <<image_type_values>>>>)
        @@ "ImagedVolumeWidth" :>
               image_data.image_size.width * image_data.pixel_spacing[1].width
        @@ "ImagedVolumeHeight" :>
               image_data.image_size.height * image_data.pixel_spacing[1].height
        @@ "ImagedVolumeDepth" :> Fraction(5, 10000)

\* WsiDataset.create_instance_dataset(base_dataset, image_type, image_data,
\* pyramid_index), with uid the identifier that generate_uid returns
CreateInstanceDataset(base_ds, image_type, image_data, pyramid_index, uid) ==
    LET image_type_values ==
            <<"ORIGINAL", "PRIMARY", image_type,
              Resampled(image_type, pyramid_index)>>
        identity ==
            "ImageType" :> image_type_values @@ "SOPInstanceUID" :> uid
        spacing ==
            IF image_data.pixel_spacing = <<>> THEN <<>>
            ELSE SpacingAttributes(image_type_values, image_data)
        coordinates ==
            IF image_data.image_coordinate_system = <<>> THEN <<>>
            ELSE "ImageOrientationSlide" :>
                     image_data.image_coordinate_system[1]
                         .image_orientation_slide
                 @@ "TotalPixelMatrixOriginSequence" :>
                     image_data.image_coordinate_system[1]
                         .total_pixel_matrix_origin_sequence
        geometry ==
            "DimensionOrganizationType" :> "TILED_FULL"
            @@ "TotalPixelMatrixColumns" :> image_data.image_size.width
            @@ "TotalPixelMatrixRows" :> image_data.image_size.height
            @@ "Columns" :> image_data.tile_size.width
            @@ "Rows" :> image_data.tile_size.height
            @@ "NumberOfFrames" :>
                   image_data.tiled_size.width * image_data.tiled_size.height
        pixels ==
            "PhotometricInterpretation" :> image_data.photometric_interpretation
            @@ "SamplesPerPixel" :> image_data.samples_per_pixel
            @@ "PlanarConfiguration" :> 0
            @@ "FocusMethod" :> "AUTO"
            @@ "ExtendedDepthOfField" :> "NO"
    IN  IF image_data.pixel_spacing = <<>> /\ image_type = "VOLUME"
        THEN Raise("ValueError: requires pixel spacing")
        ELSE IF image_data.transfer_syntax \notin
                    {"JPEGBaseline8Bit", "JPEG2000", "JPEG2000Lossless"}
        THEN Raise("ValueError: Non-supported transfer syntax")
        ELSE Return(Assigned(base_ds,
                 identity @@ spacing @@ coordinates @@ geometry
                 @@ CompressionAttributes(image_data.transfer_syntax)
                 @@ pixels))

\* base datasets: the study alone, with an instance identifier or without,
\* or the attributes of an instance made before
BaseDataset(identified, carried) ==
    "StudyInstanceUID" :> <<"1.2.826.0.1">>
    @@ (IF identified
        THEN [n \in {"SOPInstanceUID"} |-> <<CHOOSE u \in BaseUids : TRUE>>]
        ELSE <<>>)
    @@ (IF carried
        THEN SHARED :> <<SharedGroup("spacing")>>
             @@ "ImagedVolumeWidth" :> <<2>> @@ "ImagedVolumeHeight" :> <<2>>
             @@ "ImagedVolumeDepth" :> <<2>>
             @@ "LossyImageCompressionRatio" :> <<2>>
             @@ "LossyImageCompressionMethod" :> <<"ISO_10918_1">>
        ELSE <<>>)

BaseDatasets ==
    {BaseDataset(identified, carried) : identified, carried \in BOOLEAN}

\* the ImageData given: Optional pixel spacing and coordinate system; the
\* tiled size is the image size in tiles
ImageDatas ==
    {[pixel_spacing |-> pixel_spacing,
      image_size |-> Size(w, h),
      tile_size |-> Size(t, t),
      tiled_size |-> CeilDiv(Size(w, h), Size(t, t)),
      transfer_syntax |-> transfer_syntax,
      image_coordinate_system |-> image_coordinate_system,
      photometric_interpretation |-> "YBR_FULL_422",
      samples_per_pixel |-> 3] :
        pixel_spacing \in {<<>>, <<[width |-> 1, height |-> 3]>>},
        w \in 1..MaxSide, h \in {1, MaxSide}, t \in 1..MaxTileSide,
        transfer_syntax \in TransferSyntaxes,
        image_coordinate_system \in
            {<<>>, <<[image_orientation_slide |-> <<0, 1, 0, 1, 0, 0>>,
                      total_pixel_matrix_origin_sequence |-> "origin"]>>}}

PyramidIndices == {<<>>, <<0>>, <<1>>}

\* sources and base datasets of the two operations that work on a copy
CopySources ==
    {source \in TiledFullSources :
        /\ source["TotalPixelMatrixColumns"] = <<2>>
        /\ source["TotalPixelMatrixRows"] = <<1>>
        /\ source["Columns"] = <<1>>
        /\ "NumberOfFrames" \in DOMAIN source
        /\ ~(PER_FRAME \in DOMAIN source
             /\ "DimensionOrganizationType" \in DOMAIN source)
        /\ IF SHARED \in DOMAIN source
           THEN MEASURES \in DOMAIN source[SHARED][1]
                /\ "PixelSpacing" \in DOMAIN source[SHARED][1][MEASURES][1]
           ELSE source["ImageType"][1][3] = "LABEL"}

InitCopy ==
    /\ wsi \in CopySources
    /\ base_dataset \in BaseDatasets
    /\ cache = <<>>
    /\ call = <<>>
    /\ built = <<>>
    /\ strict \in BOOLEAN
    /\ dataset = [present |-> {}, sop |-> "", image_type |-> <<>>]
    /\ transfer_syntax_supported = TRUE
    /\ outcome = [s \in BOOLEAN |-> "unset"]
    /\ history = <<>>
    /\ datasets = <<>>
    /\ files = <<>>
    /\ manager = <<>>
    /\ IdleFile

\* a create_instance_dataset that works on the base dataset itself
CallCreateInstanceDatasetInPlace ==
    /\ call = <<>>
    /\ \E image_type \in ImageType, image_data \in ImageDatas,
          pyramid_index \in PyramidIndices, uid \in GeneratedUids :
          LET created == CreateInstanceDataset(base_dataset, image_type,
                                               image_data, pyramid_index, uid)
          IN  /\ call' = <<[op |-> "create_instance_dataset",
                            image_type |-> image_type,
                            image_data |-> image_data,
                            pyramid_index |-> pyramid_index,
                            outcome |-> created]>>
              /\ base_dataset' = IF created.ok THEN created.value
                                 ELSE base_dataset
    /\ UNCHANGED <<wsi, cache, built, dsVars, fileVars, datasets, files,
                   manager>>

\* WsiDataset.create_instance_dataset(base_dataset, image_type, image_data,
\* pyramid_index): the base dataset is left as it is
CallCreateInstanceDataset ==
    /\ call = <<>>
    /\ \E image_type \in ImageType, image_data \in ImageDatas,
          pyramid_index \in PyramidIndices, uid \in GeneratedUids :
          call' = <<[op |-> "create_instance_dataset",
                     image_type |-> image_type, image_data |-> image_data,
                     pyramid_index |-> pyramid_index,
                     outcome |-> CreateInstanceDataset(base_dataset,
                                     image_type, image_data, pyramid_index,
                                     uid)]>>
    /\ UNCHANGED <<wsi, cache, built, dsVars, fileVars, classVars>>

NextCopy == ReadBefore \/ CallAsTiledFull \/ CallCreateInstanceDataset

SpecCopy == InitCopy /\ [][NextCopy]_vars

---------------------------------------------------------------------------
(* The WsiDataset: check_duplicate_dataset *)

\* WsiDataset.uids: the instance identifier, the identifier of the
\* concatenation source, and the identifiers of the slide
Uids(self, strict_attribute_check) ==
    LET concatenation_uid ==
            GetDicomAttribute(self, "SOPInstanceUIDOfConcatenationSource",
                              self, strict_attribute_check)
        frame_of_reference_uid ==
            GetDicomAttribute(self, "FrameOfReferenceUID", self,
                              strict_attribute_check)
    IN  IF GetAttr(self, "SOPInstanceUID") = <<>> THEN Raise("AttributeError")
        ELSE IF ~concatenation_uid.ok THEN concatenation_uid
        ELSE IF ~frame_of_reference_uid.ok THEN frame_of_reference_uid
        ELSE IF ~Contains(self, "StudyInstanceUID")
                \/ ~Contains(self, "SeriesInstanceUID")
        THEN Raise("AttributeError")
        ELSE Return([instance |-> self["SOPInstanceUID"][1],
                     concatenation |-> concatenation_uid.value,
                     slide |-> [study_instance |-> self["StudyInstanceUID"],
                                series_instance |-> self["SeriesInstanceUID"],
                                frame_of_reference |->
                                    frame_of_reference_uid.value]])

\* str(dataset): "WsiDataset of dataset <instance identifier>", kept as the
\* words and the identifier
Str(self, strict_attribute_check) ==
    LET uids == Uids(self, strict_attribute_check)
    IN  IF ~uids.ok THEN uids
        ELSE Return([words |-> "WsiDataset of dataset",
                     instance |-> uids.value.instance])

\* WsiDicomUidDuplicateError(str(dataset), str(caller))
WsiDicomUidDuplicateError(described, caller) ==
    [error |-> "WsiDicomUidDuplicateError", duplicate |-> described,
     caller |-> caller]

\* a loop that reports the last dataset whose identifier was seen before
RECURSIVE CheckDuplicateLast(_, _, _, _, _, _)
CheckDuplicateLast(checked, i, instance_uids, found, caller, strict_attribute_check) ==
    IF i > Len(checked) THEN found
    ELSE IF GetAttr(checked[i], "SOPInstanceUID") = <<>>
    THEN Raise([error |-> "AttributeError"])
    ELSE LET instance_uid == checked[i]["SOPInstanceUID"][1]
             described == Str(checked[i], strict_attribute_check)
         IN  IF instance_uid \notin instance_uids
             THEN CheckDuplicateLast(checked, i + 1,
                      instance_uids \cup {instance_uid}, found, caller,
                      strict_attribute_check)
             ELSE IF ~described.ok
             THEN Raise([error |-> described.value])
             ELSE CheckDuplicateLast(checked, i + 1, instance_uids,
                      Raise(WsiDicomUidDuplicateError(described.value,
                                                      caller)),
                      caller, strict_attribute_check)

\* a check that reports the last duplicate of the list
CheckDuplicateDatasetLast(checked, caller, strict_attribute_check) ==
    CheckDuplicateLast(checked, 1, {}, Return(<<>>), caller,
                       strict_attribute_check)

\* the loop of check_duplicate_dataset from dataset i on, instance_uids
\* being the identifiers seen before it
RECURSIVE CheckDuplicateLoop(_, _, _, _, _)
CheckDuplicateLoop(checked, i, instance_uids, caller, strict_attribute_check) ==
    IF i > Len(checked) THEN Return(<<>>)
    ELSE IF GetAttr(checked[i], "SOPInstanceUID") = <<>>
    THEN Raise([error |-> "AttributeError"])
    ELSE LET instance_uid == checked[i]["SOPInstanceUID"][1]
             described == Str(checked[i], strict_attribute_check)
         IN  IF instance_uid \notin instance_uids
             THEN CheckDuplicateLoop(checked, i + 1,
                      instance_uids \cup {instance_uid}, caller,
                      strict_attribute_check)
             ELSE IF ~described.ok
             THEN Raise([error |-> described.value])
             ELSE Raise(WsiDicomUidDuplicateError(described.value, caller))

\* WsiDataset.check_duplicate_dataset(datasets, caller)
CheckDuplicateDataset(checked, caller, strict_attribute_check) ==
    CheckDuplicateLoop(checked, 1, {}, caller, strict_attribute_check)

\* instance identifiers of the datasets of a list, and the objects the list
\* belongs to
InstanceUids == {"1.2.1", "1.2.2", "1.2.3"}
Callers == {"WsiDicomLevel", "WsiDicomGroup"}

\* a dataset of an opened file: the identifiers and the image type that
\* is_supported_wsi_dicom asks for are stored
InstanceDataset(instance_uid, image_type) ==
    [n \in {"SOPInstanceUID", "StudyInstanceUID", "SeriesInstanceUID",
            "ImageType"} |->
        CASE n = "SOPInstanceUID" -> <<instance_uid>>
          [] n = "ImageType" ->
                 <<<<"ORIGINAL", "PRIMARY", image_type, "NONE">>>>
          [] OTHER -> <<"1.2">>]

\* the lists of datasets given to check_duplicate_dataset
DatasetLists ==
    UNION {[1..n -> {InstanceDataset(instance_uid, "VOLUME") :
                        instance_uid \in InstanceUids}] : n \in 0..MaxDatasets}

InitDuplicate ==
    /\ datasets \in DatasetLists
    /\ base_dataset = <<>>
    /\ files = <<>>
    /\ manager = <<>>
    /\ IdleWsi
    /\ dataset = [present |-> {}, sop |-> "", image_type |-> <<>>]
    /\ transfer_syntax_supported = TRUE
    /\ strict \in BOOLEAN
    /\ outcome = [s \in BOOLEAN |-> "unset"]
    /\ history = <<>>
    /\ IdleFile

CallCheckDuplicateDataset ==
    /\ call = <<>>
    /\ \E caller \in Callers :
          call' = <<[op |-> "check_duplicate_dataset", caller |-> caller,
                     outcome |-> CheckDuplicateDataset(datasets, caller,
                                                       strict)]>>
    /\ UNCHANGED <<wsi, cache, built, dsVars, fileVars, classVars>>

NextDuplicate == CallCheckDuplicateDataset

SpecDuplicate == InitDuplicate /\ [][NextDuplicate]_vars

---------------------------------------------------------------------------
(* The WsiDataset: attribute writes between reads of derived fields *)

\* the attributes written, and the values written to them
WrittenValues ==
    [NumberOfFrames |-> 1..MaxFrameCount,
     DimensionOrganizationType |-> {"TILED_FULL", "TILED_SPARSE"},
     TotalPixelMatrixColumns |-> 1..MaxSide,
     Columns |-> 1..MaxTileSide]

\* the datasets written to: a VOLUME or LABEL with a pixel matrix one tile
\* high, its frames counted
MutatedDatasets ==
    {ds \in GeometryDatasets :
        /\ ds["ImageType"][1][3] \in {"VOLUME", "LABEL"}
        /\ ds["TotalPixelMatrixRows"] = <<1>>
        /\ ds["Rows"] = <<1>>
        /\ ds["TotalPixelMatrixColumns"] # <<0>>
        /\ "NumberOfFrames" \in DOMAIN ds
        /\ "DimensionOrganizationType" \in DOMAIN ds
        /\ "PerFrameFunctionalGroupsSequence" \notin DOMAIN ds}

InitMutation ==
    /\ IdleClass
    /\ wsi \in MutatedDatasets
    /\ cache = <<>>
    /\ call = <<>>
    /\ built = <<>>
    /\ IdleDataset
    /\ IdleFile

\* dataset.name = value on the WsiDataset: pydicom stores the element;
\* the values kept by the cached properties stay as they are
WriteAttribute ==
    /\ \E name \in DOMAIN WrittenValues : \E value \in WrittenValues[name] :
          /\ GetAttr(wsi, name) # <<value>>
          /\ wsi' = SetAttr(wsi, name, value)
          /\ call' = <<[op |-> "__setattr__", name |-> name,
                        value |-> value]>>
    /\ UNCHANGED <<cache, built, dsVars, fileVars, classVars>>

NextMutation ==
    \/ ReadFrameCount
    \/ ReadTileType
    \/ ReadTileSize
    \/ ReadImageSize
    \/ WriteAttribute

SpecMutation == InitMutation /\ [][NextMutation]_vars

---------------------------------------------------------------------------
(* The WsiDataset: extended depth of field and slice thickness *)

\* the values an accessor returns, with their Python type
PyBool(b) == [type |-> "bool", value |-> <<b>>]
PyNumber(n) == [type |-> "number", value |-> <<n>>]
PyNone == [type |-> "NoneType", value |-> <<>>]

\* WsiDataset._ext_depth_of_field: (enabled, number of focal planes,
\* distance between focal planes)
ExtDepthOfFieldOf(self, c, strict_attribute_check) ==
    IF "_ext_depth_of_field" \in DOMAIN c
    THEN FromCache(c, "_ext_depth_of_field")
    ELSE LET enabled == GetDicomAttribute(self, "ExtendedDepthOfField", self,
                                          strict_attribute_check)
             planes == GetDicomAttribute(self, "NumberOfFocalPlanes", self,
                                         strict_attribute_check)
             distance == GetDicomAttribute(self, "DistanceBetweenFocalPlanes",
                                           self, strict_attribute_check)
         IN  IF ~enabled.ok THEN ReadAs(enabled, c)
             ELSE IF enabled.value # <<"YES">>
             THEN ReadAs(Return(<<PyBool(FALSE), PyNone, PyNone>>),
                         Kept(c, "_ext_depth_of_field",
                              <<PyBool(FALSE), PyNone, PyNone>>))
             ELSE IF ~planes.ok THEN ReadAs(planes, c)
             ELSE IF ~distance.ok THEN ReadAs(distance, c)
             ELSE IF planes.value = <<>> \/ distance.value = <<>>
             THEN ReadAs(Raise("WsiDicomFileError"), c)
             ELSE ReadAs(Return(<<PyBool(TRUE), PyNumber(planes.value[1]),
                                  PyNumber(distance.value[1])>>),
                         Kept(c, "_ext_depth_of_field",
                              <<PyBool(TRUE), PyNumber(planes.value[1]),
                                PyNumber(distance.value[1])>>))

\* self._ext_depth_of_field[index]
ExtDepthOfFieldItem(self, c, strict_attribute_check, index) ==
    LET triple == ExtDepthOfFieldOf(self, c, strict_attribute_check)
    IN  IF ~triple.out.ok THEN triple
        ELSE ReadAs(Return(triple.out.value[index]), triple.cache)

\* the shapes of the pixel measures: no shared functional group, pixel
\* measures without a slice thickness, pixel measures with one
FocusGroups == {"absent", "measures", "thickness"}

FocusGroup(shared) ==
    [n \in {MEASURES} |->
        <<[m \in {"PixelSpacing"}
                 \cup (IF shared = "thickness" THEN {"SliceThickness"}
                       ELSE {}) |->
             IF m = "PixelSpacing" THEN <<<<1, 1>>>> ELSE <<4>>]>>]

\* datasets for reading the focus: the image type, the extended depth of
\* field with its planes and distance, the pixel measures, the depth of the
\* imaged volume and the number of focal planes, each stored or not
FocusDataset(image_type, enabled, planes, distance, shared, depth, focal_planes) ==
    [n \in (IF image_type = <<>> THEN {} ELSE {"ImageType"})
           \cup (IF enabled = <<>> THEN {} ELSE {"ExtendedDepthOfField"})
           \cup (IF planes = <<>> THEN {} ELSE {"NumberOfFocalPlanes"})
           \cup (IF distance = <<>> THEN {}
                 ELSE {"DistanceBetweenFocalPlanes"})
           \cup (IF shared = "absent" THEN {} ELSE {SHARED})
           \cup (IF depth = <<>> THEN {} ELSE {"ImagedVolumeDepth"})
           \cup (IF focal_planes = <<>> THEN {}
                 ELSE {"TotalPixelMatrixFocalPlanes"}) |->
        CASE n = "ImageType" -> <<StoredValue("ImageType", image_type[1])>>
          [] n = "ExtendedDepthOfField" -> enabled
          [] n = "NumberOfFocalPlanes" -> planes
          [] n = "DistanceBetweenFocalPlanes" -> distance
          [] n = SHARED -> <<FocusGroup(shared)>>
          [] n = "ImagedVolumeDepth" -> depth
          [] n = "TotalPixelMatrixFocalPlanes" -> focal_planes]

FocusDatasets ==
    {FocusDataset(image_type, enabled, planes, distance, shared, depth,
                  focal_planes) :
        image_type \in {<<>>, <<"VOLUME">>, <<"LABEL">>},
        enabled \in {<<>>, <<"YES">>, <<"NO">>},
        planes \in {<<>>, <<3>>}, distance \in {<<>>, <<5>>},
        shared \in FocusGroups, depth \in {<<>>, <<6>>},
        focal_planes \in {<<>>} \cup {<<n>> : n \in 2..MaxFocalPlanes}}

InitFocus ==
    /\ IdleClass
    /\ wsi \in FocusDatasets
    /\ cache = <<>>
    /\ call = <<>>
    /\ built = <<>>
    /\ dataset = [present |-> {}, sop |-> "", image_type |-> <<>>]
    /\ transfer_syntax_supported = TRUE
    /\ strict \in BOOLEAN
    /\ outcome = [s \in BOOLEAN |-> "unset"]
    /\ history = <<>>
    /\ IdleFile

ReadExtDepthOfField ==
    ReadField("ext_depth_of_field", ExtDepthOfFieldItem(wsi, cache, strict, 1))

ReadExtDepthOfFieldPlanes ==
    ReadField("ext_depth_of_field_planes",
              ExtDepthOfFieldItem(wsi, cache, strict, 2))

ReadExtDepthOfFieldPlaneDistance ==
    ReadField("ext_depth_of_field_plane_distance",
              ExtDepthOfFieldItem(wsi, cache, strict, 1))

ReadSliceThickness ==
    ReadField("slice_thickness", SliceThicknessOf(wsi, cache, strict))

NextFocus ==
    \/ ReadExtDepthOfField
    \/ ReadExtDepthOfFieldPlanes
    \/ ReadExtDepthOfFieldPlaneDistance
    \/ ReadSliceThickness

SpecFocus == InitFocus /\ [][NextFocus]_vars

---------------------------------------------------------------------------
(* The OpticalManager *)

\* IccProfile.read_name(ds): the name of the profile stored in ICCProfile,
\* <<>> (None) when there is none or it is not valid
ReadName(ds) == GetAttr(ds, "ICCProfile")

\* IccProfile.from_ds(ds)
IccProfileFromDs(ds) ==
    [name |-> ds["ICCProfile"][1], profile |-> ds["ICCProfile"][1]]

\* Lut(lut_sequence): the tables parsed from the first item
Lut(lut_sequence) == [table |-> lut_sequence]

\* OpticalPath.from_ds(ds)
OpticalPathFromDs(ds) ==
    [identifier |-> ds["OpticalPathIdentifier"][1],
     description |-> IF Contains(ds, "OpticalPathDescription")
                     THEN ds["OpticalPathDescription"][1] ELSE "",
     icc_profile_name |-> ReadName(ds),
     lut |-> IF Contains(ds, "PaletteColorLookupTableSequence")
             THEN <<Lut(ds["PaletteColorLookupTableSequence"][1])>>
             ELSE <<>>]

\* a loop in which a later optical path of an identifier replaces the earlier
RECURSIVE OpenLoopReplacing(_, _, _)
OpenLoopReplacing(sequence, optical_paths, icc_profiles) ==
    IF sequence = <<>>
    THEN [optical_paths |-> optical_paths, icc_profiles |-> icc_profiles]
    ELSE LET optical_ds == Head(sequence)
             identifier == optical_ds["OpticalPathIdentifier"][1]
             icc_profile_name == ReadName(optical_ds)
         IN  OpenLoopReplacing(Tail(sequence),
                 (identifier :> OpticalPathFromDs(optical_ds))
                     @@ optical_paths,
                 IF icc_profile_name # <<>>
                    /\ icc_profile_name[1] \notin DOMAIN icc_profiles
                 THEN icc_profiles
                      @@ (icc_profile_name[1] :> IccProfileFromDs(optical_ds))
                 ELSE icc_profiles)

\* an open in which later optical paths replace earlier ones
OpticalManagerOpenReplacing(opened) == OpenLoopReplacing(Concat(opened), <<>>, <<>>)

\* the two loops of OpticalManager.open over the optical paths of the files
\* in order, the paths and profiles found so far being given
RECURSIVE OpenLoop(_, _, _)
OpenLoop(sequence, optical_paths, icc_profiles) ==
    IF sequence = <<>>
    THEN [optical_paths |-> optical_paths, icc_profiles |-> icc_profiles]
    ELSE LET optical_ds == Head(sequence)
             identifier == optical_ds["OpticalPathIdentifier"][1]
             icc_profile_name == ReadName(optical_ds)
         IN  IF identifier \in DOMAIN optical_paths
             THEN OpenLoop(Tail(sequence), optical_paths, icc_profiles)
             ELSE OpenLoop(Tail(sequence),
                      optical_paths
                          @@ (identifier :> OpticalPathFromDs(optical_ds)),
                      IF icc_profile_name # <<>>
                         /\ icc_profile_name[1] \notin DOMAIN icc_profiles
                      THEN icc_profiles
                           @@ (icc_profile_name[1] :>
                                   IccProfileFromDs(optical_ds))
                      ELSE icc_profiles)

\* OpticalManager.open(files): a file is its optical_path_sequence
OpticalManagerOpen(opened) == OpenLoop(Concat(opened), <<>>, <<>>)

\* OpticalManager.get(identifier)
OpticalManagerGet(self, identifier) ==
    IF identifier \in DOMAIN self.optical_paths
    THEN Return(self.optical_paths[identifier])
    ELSE Raise("WsiDicomNotFoundError: identifier")

\* OpticalManager.get_lut(identifier)
OpticalManagerGetLut(self, identifier) ==
    LET path == OpticalManagerGet(self, identifier)
    IN  IF ~path.ok THEN path
        ELSE IF path.value.lut = <<>>
        THEN Raise("WsiDicomNotFoundError: Lut for identifier")
        ELSE Return(path.value.lut[1])

\* the items of the optical path sequences: two identifiers, each with and
\* without a lookup table
OpticalDataset(identifier, lut, icc) ==
    [n \in {"OpticalPathIdentifier"}
           \cup (IF lut = <<>> THEN {}
                 ELSE {"PaletteColorLookupTableSequence",
                       "OpticalPathDescription"})
           \cup (IF icc = <<>> THEN {} ELSE {"ICCProfile"}) |->
        CASE n = "OpticalPathIdentifier" -> <<identifier>>
          [] n = "PaletteColorLookupTableSequence" -> lut
          [] n = "OpticalPathDescription" -> <<"fluorescence">>
          [] n = "ICCProfile" -> icc]

OpticalDatasets ==
    {OpticalDataset("0", <<"lut 0">>, <<"sRGB">>),
     OpticalDataset("0", <<>>, <<>>),
     OpticalDataset("1", <<>>, <<"sRGB">>),
     OpticalDataset("1", <<"lut 1">>, <<"Adobe RGB">>)}

\* the identifiers asked for: those of the files and one of none
AskedIdentifiers == {"0", "1", "2"}

OpticalPathSequences ==
    UNION {[1..n -> OpticalDatasets] : n \in 0..MaxPaths}

FileLists == UNION {[1..n -> OpticalPathSequences] : n \in 0..MaxFiles}

InitOptical ==
    /\ files \in FileLists
    /\ manager = <<>>
    /\ base_dataset = <<>>
    /\ datasets = <<>>
    /\ IdleWsi
    /\ IdleDataset
    /\ IdleFile

Open ==
    /\ manager = <<>>
    /\ manager' = <<OpticalManagerOpen(files)>>
    /\ call' = <<[op |-> "open"]>>
    /\ UNCHANGED <<wsi, cache, built, dsVars, fileVars, base_dataset,
                   datasets, files>>

Get ==
    /\ manager # <<>>
    /\ \E identifier \in AskedIdentifiers :
          call' = <<[op |-> "get", identifier |-> identifier,
                     outcome |-> OpticalManagerGet(manager[1], identifier)]>>
    /\ UNCHANGED <<wsi, cache, built, dsVars, fileVars, classVars>>

GetLut ==
    /\ manager # <<>>
    /\ \E identifier \in AskedIdentifiers :
          call' = <<[op |-> "get_lut", identifier |-> identifier,
                     outcome |-> OpticalManagerGetLut(manager[1],
                                                      identifier)]>>
    /\ UNCHANGED <<wsi, cache, built, dsVars, fileVars, classVars>>

NextOptical == Open \/ Get \/ GetLut

SpecOptical == InitOptical /\ [][NextOptical]_vars

---------------------------------------------------------------------------
(* Claims on the pixel-data stream *)

FrameCount == Len(frames)

\* C1 (as claimed): round trip. Once the written stream has been parsed, the
\* parser succeeded, its frame index equals the index write_table expects
\* (Item position + 8, payload length rounded up to even), and it reports
\* the offset-table type that was written.
C1_RoundTrip ==
    pc = "parsed" =>
        /\ parsed[1].status = "ok"
        /\ parsed[1].index = ExpectedFrameIndex
        /\ parsed[1].type = offset_table

\* C2 (as claimed): in a file written by write(), read_frame(i) for every i
\* below the frame count returns the i-th frame, possibly followed by one
\* padding byte.
C2_ReadFrameReturnsFrame ==
    (base # 0 /\ read # <<>> /\ read[1].index < FrameCount) =>
        /\ read[1].status = "ok"
        /\ Len(read[1].bytes) - Len(frames[read[1].index + 1]) \in {0, 1}
        /\ SubSeq(read[1].bytes, 1, Len(frames[read[1].index + 1]))
              = frames[read[1].index + 1]

\* recorded length r and true payload length t obey the padding law
PaddingLaw(r, t) == r % 2 = 0 /\ (t = r \/ t = r - 1)

\* C3 (as claimed): padding law. In the index the writer produced and in the
\* index the parser produced, every recorded length is even and the frame's
\* payload is as long or one byte shorter; an odd payload is stored with
\* exactly one trailing zero byte.
C3_PaddingLaw ==
    /\ \A k \in 1..Len(positions) :
          /\ PaddingLaw(ExpectedFrameIndex[k][2], Len(frames[k]))
          /\ Len(frames[k]) % 2 = 1 =>
                Bytes(file, ExpectedFrameIndex[k][1], Len(frames[k]) + 1)
                    = frames[k] \o <<0>>
          /\ ReadLE(file, positions[k] + TAG_BYTES, LENGTH_BYTES)
                = ExpectedFrameIndex[k][2]
    /\ (pc = "parsed" /\ parsed[1].status = "ok") =>
          \A k \in 1..Len(parsed[1].index) :
              PaddingLaw(parsed[1].index[k][2], Len(frames[k]))

\* the sink holds the pixel-data header and the reservation, nothing else
JustReserved == pc = "frames" /\ positions = <<>>

\* C4: reserving a BASIC table writes one Item of declared length
\* 4 * frame_count, holding frame_count 4-byte zero values, and the sink
\* ends right behind it.
C4_ReservedBot ==
    (JustReserved /\ offset_table = "BASIC") =>
        LET start == table_start[1]
            values == start + TAG_BYTES + LENGTH_BYTES
        IN  /\ EndOf(file) = values + BOT_ITEM_LENGTH * FrameCount
            /\ TagAt(file, start) = ItemTag
            /\ ReadLE(file, start + TAG_BYTES, LENGTH_BYTES)
                  = BOT_ITEM_LENGTH * FrameCount
            /\ \A k \in 0..FrameCount - 1 :
                  ReadLE(file, values + BOT_ITEM_LENGTH * k, BOT_ITEM_LENGTH) = 0

C4_Witness ==
    JustReserved /\ offset_table = "BASIC" /\ FrameCount = MaxFrames

\* the element at offset p has tag, declared length 8 * frame_count and
\* frame_count 8-byte zero values
ZeroEotElement(p, tag) ==
    /\ TagAt(file, p) = tag
    /\ ReadLE(file, p + TAG_BYTES + 4, LENGTH_BYTES) = EOT_ITEM_LENGTH * FrameCount
    /\ \A k \in 0..FrameCount - 1 :
          ReadLE(file, p + ELEMENT_HEADER_BYTES + EOT_ITEM_LENGTH * k,
                 EOT_ITEM_LENGTH) = 0

\* C5: reserving an EXTENDED table writes two elements, "Extended Offset
\* Table" then "Extended Offset Table Lengths", each of declared length
\* 8 * frame_count with frame_count 8-byte zero values, and nothing behind.
C5_ReservedEot ==
    (JustReserved /\ offset_table = "EXTENDED") =>
        LET first == table_start[1]
            second == first + ELEMENT_HEADER_BYTES + EOT_ITEM_LENGTH * FrameCount
        IN  /\ EndOf(file)
                  = second + ELEMENT_HEADER_BYTES + EOT_ITEM_LENGTH * FrameCount
            /\ ZeroEotElement(first, ExtendedOffsetTableTag)
            /\ ZeroEotElement(second, ExtendedOffsetTableLengthsTag)

C5_Witness ==
    JustReserved /\ offset_table = "EXTENDED" /\ FrameCount = MaxFrames

\* the bytes of the table region are still the reserved zeros
Unpatched(f) ==
    Bytes(f, base + Len(PixelDataHeader), pixel_data_start - base - Len(PixelDataHeader))
        = Reserved(FrameCount, offset_table)

\* the sink holds the header, the table region and the Items of the first
\* Len(positions) frames, one after another
FramesLaidOut(f) ==
    /\ Bytes(f, base, Len(PixelDataHeader)) = PixelDataHeader
    /\ positions = ItemPositions(pixel_data_start,
                                 [k \in 1..Len(positions) |-> k], frames)
    /\ \A k \in 1..Len(positions) :
          Bytes(f, positions[k], Len(FrameItem(frames[k]))) = FrameItem(frames[k])

\* the closing delimiter sits behind the last frame Item and ends the sink
Delimited(f) ==
    /\ Len(positions) = FrameCount
    /\ pixel_data_end = <<pixel_data_start
                            + Len(Concat([k \in 1..FrameCount |-> FrameItem(frames[k])]))>>
    /\ Bytes(f, pixel_data_end[1], TAG_BYTES + LENGTH_BYTES)
          = SequenceDelimiterTag \o LE(0, LENGTH_BYTES)
    /\ EndOf(f) = pixel_data_end[1] + TAG_BYTES + LENGTH_BYTES

\* what the sink holds at each stage of the write
StageLayout ==
    /\ pc = "start" => file = <<>>
    /\ pc = "frames" =>
          /\ FramesLaidOut(file) /\ Unpatched(file)
          /\ EndOf(file) = pixel_data_start
                + Len(Concat([k \in 1..Len(positions) |-> FrameItem(frames[k])]))
    /\ pc = "patch" =>
          FramesLaidOut(file) /\ Delimited(file) /\ Unpatched(file)
    /\ pc \in {"written", "parsed"} =>
          /\ FramesLaidOut(file) /\ Delimited(file)
          /\ offset_table # "NONE" => ~Unpatched(file)

\* a step that changes the sink: before the delimiter it appends; the patch
\* keeps the length and every byte outside the reserved region; afterwards
\* the sink does not change
SinkStep ==
    file' # file =>
        /\ pc \in {"start", "frames", "patch"}
        /\ pc \in {"start", "frames"} =>
              /\ Len(file') > Len(file)
              /\ SubSeq(file', 1, Len(file)) = file
        /\ pc = "patch" =>
              /\ Len(file') = Len(file)
              /\ \A p \in base..EndOf(file) - 1 :
                    (p < table_start[1] \/ p >= pixel_data_start)
                        => file'[p - base + 1] = file[p - base + 1]

\* C6: the write proceeds in the order reservation, frame Items, delimiter,
\* patch, and the patch changes only bytes of the reserved region: neither
\* the length of the file, nor a frame Item, nor the delimiter.
C6_OrderedWrite ==
    [][(pc' # pc \/ file' # file) => (StageLayout' /\ SinkStep)]_vars

C6_Witness ==
    /\ pc = "written" /\ offset_table # "NONE" /\ FrameCount = MaxFrames
    /\ ~Unpatched(file)

\* C7: every position the frame-writing step returned is the offset of an
\* Item tag; positions are in frame order and strictly increasing, and each
\* is the previous one plus 8 plus the previous frame's even-padded length,
\* whatever the worker count and the chunk size.
C7_Positions ==
    /\ \A k \in 1..Len(positions) - 1 :
          /\ positions[k] < positions[k + 1]
          /\ positions[k + 1] = positions[k] + TAG_BYTES + LENGTH_BYTES
                                  + 2 * ((Len(frames[k]) + 1) \div 2)
    /\ \A k \in 1..Len(positions) :
          /\ InFile(file, positions[k] + TAG_BYTES + LENGTH_BYTES,
                    Len(frames[k]))
          /\ TagAt(file, positions[k]) = ItemTag
          /\ Bytes(file, positions[k] + TAG_BYTES + LENGTH_BYTES, Len(frames[k]))
                = frames[k]

C7_Witness ==
    /\ Len(positions) = MaxFrames /\ workers > 1 /\ chunk_size > 1
    /\ completed # <<>> /\ completed[1] > completed[Len(completed)]
    /\ Len(frames[1]) # Len(frames[2])

---------------------------------------------------------------------------
(* Claims on the classification *)

\* the dataset has been classified under both strict modes
ClassifiedBoth == outcome[FALSE] # "unset" /\ outcome[TRUE] # "unset"

\* the dataset carries the WSI SOP class, a descriptor naming a known image
\* type and every ALWAYS attribute, and its transfer syntax is decodable
WellFormed ==
    /\ "SOPClassUID" \in dataset.present
    /\ dataset.sop = "WSI_SOP_CLASS_UID"
    /\ "ImageType" \in dataset.present
    /\ GetImageType(dataset.image_type)[1]
    /\ ALWAYS_NAMES \subseteq dataset.present
    /\ transfer_syntax_supported

\* an entry applies to an image type: no image type given means all types
AppliesTo(attribute, image_type) ==
    attribute.image_types = {} \/ image_type \in attribute.image_types

\* C8 (as claimed): a dataset that lacks a STRICT attribute applicable to
\* its image type classifies with strict mode off and raises a
\* StrictRequirementError with strict mode on.
C8_StrictRaises ==
    (/\ ClassifiedBoth /\ WellFormed
     /\ \E name \in STRICT_NAMES \ dataset.present :
            AppliesTo(WSI_ATTRIBUTES[name], dataset.image_type[3])) =>
        /\ outcome[FALSE] = dataset.image_type[3]
        /\ outcome[TRUE] = "StrictRequirementError"

\* C8 (amended): a dataset that lacks a STRICT attribute whose image types
\* list its image type classifies with strict mode off, and with strict
\* mode on the classification returns none: it raises nothing.
C8_StrictReturnsNone ==
    (/\ ClassifiedBoth /\ WellFormed
     /\ \E name \in STRICT_NAMES \ dataset.present :
            dataset.image_type[3] \in WSI_ATTRIBUTES[name].image_types) =>
        /\ outcome[FALSE] = dataset.image_type[3]
        /\ outcome[TRUE] = "None"

C8_Witness ==
    /\ ClassifiedBoth /\ WellFormed
    /\ "ImagedVolumeWidth" \notin dataset.present
    /\ dataset.image_type[3] = "VOLUME"
    /\ outcome[FALSE] = "VOLUME"

\* C9 (as claimed): an image type is returned only if every entry active for
\* it (ALWAYS, or STRICT under strict mode, and applying to the image type,
\* an entry without image types applying to all) is present in the dataset.
C9_ActiveEntriesPresent ==
    \A s \in BOOLEAN :
        outcome[s] \in ImageType =>
            \A name \in DOMAIN WSI_ATTRIBUTES :
                (/\ WSI_ATTRIBUTES[name].requirement = "ALWAYS"
                        \/ (WSI_ATTRIBUTES[name].requirement = "STRICT" /\ s)
                 /\ AppliesTo(WSI_ATTRIBUTES[name], outcome[s]))
                    => name \in dataset.present

\* C10 (as claimed): the classification returns an image type or none for
\* every dataset; it never raises.
C10_NeverRaises ==
    \A s \in BOOLEAN : outcome[s] \in ImageType \cup {"None", "unset"}

\* C11: classifying a valid WSI dataset again and again, with the strict
\* mode unchanged, returns the same image type every time and leaves the
\* dataset's attributes as they were.
C11_IdempotentClassification ==
    [][(Len(history') = Len(history) + 1 /\ history'[1] \in ImageType) =>
          /\ dataset' = dataset
          /\ \A i \in 1..Len(history') : history'[i] = history'[1]]_vars

C11_Witness ==
    /\ Len(history) = MaxCalls
    /\ history[MaxCalls] \in ImageType
    /\ strict
    /\ outcome[FALSE] \in ImageType

---------------------------------------------------------------------------
(* Claims on attributes and requirements *)

\* the last call was op
Called(op) == call # <<>> /\ call[1].op = op

\* a call returned value / raised error
Returns(o, value) == o.ok /\ o.value = value
Raises(o, error) == ~o.ok /\ o.value = error

\* the image type of the WsiDataset, whose descriptor is well formed
WsiImageType == wsi["ImageType"][1][3]

\* C12 (as claimed): _get_dicom_attribute returns the stored value of a
\* present attribute; for an absent one it returns the default if the entry
\* has one; with no default it raises the requirement error for an ALWAYS
\* entry applying to the image type and the strict-requirement error for a
\* STRICT entry applying to it under strict mode, and otherwise returns
\* none.  A missing FocusMethod or ExtendedDepthOfField yields its default.
C12_DefaultBeforeError ==
    Called("_get_dicom_attribute") =>
        LET name == call[1].name
            attribute == WSI_ATTRIBUTES[name]
            o == call[1].outcome
        IN  IF Contains(wsi, name) THEN Returns(o, wsi[name])
            ELSE IF attribute.default # <<>> THEN Returns(o, attribute.default)
            ELSE IF attribute.requirement = "ALWAYS"
                    /\ AppliesTo(attribute, WsiImageType)
            THEN Raises(o, "WsiDicomRequirementError")
            ELSE IF attribute.requirement = "STRICT"
                    /\ AppliesTo(attribute, WsiImageType) /\ call[1].strict
            THEN Raises(o, "WsiDicomStrictRequirementError")
            ELSE Returns(o, <<>>)

\* C12 (amended): _get_dicom_attribute returns the stored value of an
\* attribute stored with a value.  For an attribute that is absent or
\* stored without a value, the error comes before the default: a STRICT
\* entry that lists the image type raises the strict-requirement error
\* under strict mode, default or not, so that a missing FocusMethod or
\* ExtendedDepthOfField of a VOLUME yields its default only with strict
\* mode off; a STANDARD entry, a STRICT entry with strict mode off and a
\* STRICT entry listing other image types yield the entry's default, none
\* if it has no default.  (Entries without image types are left out.)
C12_ErrorBeforeDefault ==
    (/\ Called("_get_dicom_attribute")
     /\ \/ WSI_ATTRIBUTES[call[1].name].image_types # {}
        \/ WSI_ATTRIBUTES[call[1].name].requirement = "STANDARD"
        \/ GetAttr(wsi, call[1].name) # <<>>) =>
        LET name == call[1].name
            attribute == WSI_ATTRIBUTES[name]
            o == call[1].outcome
        IN  /\ IF GetAttr(wsi, name) # <<>> THEN Returns(o, GetAttr(wsi, name))
               ELSE IF /\ attribute.requirement = "STRICT"
                       /\ WsiImageType \in attribute.image_types
                       /\ call[1].strict
               THEN Raises(o, "WsiDicomStrictRequirementError")
               ELSE Returns(o, attribute.default)
            /\ (name \in {"FocusMethod", "ExtendedDepthOfField"}
                /\ ~Contains(wsi, name)) =>
                  IF WsiImageType = "VOLUME" /\ call[1].strict
                  THEN Raises(o, "WsiDicomStrictRequirementError")
                  ELSE Returns(o, DefaultOf(name))

C12_Witness ==
    /\ Called("_get_dicom_attribute")
    /\ call[1].name = "FocusMethod"
    /\ ~Contains(wsi, "FocusMethod")
    /\ WsiImageType = "VOLUME"
    /\ call[1].strict
    /\ ~call[1].outcome.ok

\* C13 (as claimed): get_default of an ALWAYS requirement that applies to
\* the image type (a requirement without image types applying to every
\* type) raises the requirement error under either strict mode.
C13_AlwaysDefaultRaises ==
    (/\ Called("get_default")
     /\ call[1].attribute.requirement = "ALWAYS"
     /\ AppliesTo(call[1].attribute, call[1].image_type)) =>
        Raises(call[1].outcome, "WsiDicomRequirementError")

\* C14 (as claimed): no requirement of severity ALWAYS carries a default,
\* whether it is an entry of the table or was built by a caller.
C14_NoAlwaysDefault ==
    /\ \A name \in DOMAIN WSI_ATTRIBUTES :
          WSI_ATTRIBUTES[name].requirement = "ALWAYS" =>
              WSI_ATTRIBUTES[name].default = <<>>
    /\ \A i \in 1..Len(built) :
          built[i].requirement = "ALWAYS" => built[i].default = <<>>

---------------------------------------------------------------------------
(* Claims on the derived fields *)

\* the three inputs of the tile-type inference, read from the attributes
MarkerIsFull == GetAttr(wsi, "DimensionOrganizationType") = <<"TILED_FULL">>
HasPerFrame == Contains(wsi, "PerFrameFunctionalGroupsSequence")
StoredFrameCount ==
    IF GetAttr(wsi, "NumberOfFrames") = <<>> THEN 1
    ELSE wsi["NumberOfFrames"][1]

\* C15: the tile type is a function of the marker, the presence of
\* per-frame groups and the frame count: marker TILED_FULL gives FULL even
\* with per-frame groups; else per-frame groups give SPARSE; else a frame
\* count of 1 gives FULL; every other dataset raises the undetermined-
\* tile-type error.  Each dataset gets exactly one of FULL, SPARSE, error.
C15_TileTypeInference ==
    Called("tile_type") =>
        LET o == call[1].outcome
        IN  /\ MarkerIsFull => Returns(o, "TILED_FULL")
            /\ (~MarkerIsFull /\ HasPerFrame) => Returns(o, "TILED_SPARSE")
            /\ (~MarkerIsFull /\ ~HasPerFrame /\ StoredFrameCount = 1) =>
                  Returns(o, "TILED_FULL")
            /\ (~MarkerIsFull /\ ~HasPerFrame /\ StoredFrameCount # 1) =>
                  Raises(o, "WsiDicomError: Undetermined tile type")
            /\ o.ok => o.value \in TileType

C15_Witness ==
    /\ Called("tile_type")
    /\ ~MarkerIsFull /\ ~HasPerFrame /\ StoredFrameCount # 1
    /\ ~call[1].outcome.ok

\* the declared pixel matrix and the tile of the dataset
DeclaredSize ==
    Size(wsi["TotalPixelMatrixColumns"][1], wsi["TotalPixelMatrixRows"][1])
DeclaredTile == Size(wsi["Columns"][1], wsi["Rows"][1])

\* the tiling the attributes stand for, by the rule of C15
Tiling ==
    IF MarkerIsFull THEN "TILED_FULL"
    ELSE IF HasPerFrame THEN "TILED_SPARSE"
    ELSE IF StoredFrameCount = 1 THEN "TILED_FULL"
    ELSE "undetermined"

\* C16: reading image_size raises for a declared width or height <= 0.
\* For a FULL dataset whose ceil(declared size / tile size).area differs
\* from the frame count it raises if the image is a VOLUME or the frame
\* count is not 1, and returns the tile size otherwise; when the areas
\* agree, or the tiling is SPARSE, it returns the declared size.
C16_ImageSizeRule ==
    Called("image_size") =>
        LET o == call[1].outcome
            positive == DeclaredSize.width > 0 /\ DeclaredSize.height > 0
            agree == Area(CeilDiv(DeclaredSize, DeclaredTile)) = StoredFrameCount
        IN  /\ ~positive => Raises(o, "WsiDicomError: Image size is zero")
            /\ (positive /\ Tiling = "TILED_FULL" /\ ~agree) =>
                  IF WsiImageType = "VOLUME" \/ StoredFrameCount # 1
                  THEN Raises(o, "WsiDicomError: Image size does not match")
                  ELSE Returns(o, DeclaredTile)
            /\ (positive /\ Tiling = "TILED_FULL" /\ agree) =>
                  Returns(o, DeclaredSize)
            /\ (positive /\ Tiling = "TILED_SPARSE") => Returns(o, DeclaredSize)

C16_Witness ==
    /\ Called("image_size")
    /\ WsiImageType = "LABEL"
    /\ Tiling = "TILED_FULL"
    /\ StoredFrameCount = 1
    /\ DeclaredSize.width > 0 /\ DeclaredSize.height > 0
    /\ Area(CeilDiv(DeclaredSize, DeclaredTile)) # 1
    /\ DeclaredTile # DeclaredSize
    /\ Returns(call[1].outcome, DeclaredTile)

---------------------------------------------------------------------------
(* Claims on the focal planes *)

\* the consecutive differences of the sorted focal planes of the last call
SortedPlanes == Sorted(call[1].focal_planes)
Difference(i) == SortedPlanes[i + 1] - SortedPlanes[i]
Differences == 1..(Len(SortedPlanes) - 1)

\* C18 (as claimed): the spacing is computed on the sorted focal planes; it
\* succeeds if and only if all consecutive differences agree with one
\* another within the threshold and raises the non-uniform-spacing error
\* otherwise; on success it is the common difference (in mm), and 0 for a
\* single plane.
C18_AllDifferencesAgree ==
    (Called("spacing") /\ call[1].focal_planes # <<>>) =>
        LET o == call[1].outcome
        IN  IF Len(SortedPlanes) = 1 THEN Returns(o, Fraction(0, 1))
            ELSE IF \A i, j \in Differences :
                       Abs(Difference(i) - Difference(j))
                         <= focal_plane_distance_threshold
            THEN /\ o.ok
                 /\ \E i \in Differences :
                       o.value = Fraction(Difference(i), 1000)
            ELSE Raises(o, "NotImplementedError: non-equal spacing")

\* C18 (amended): the spacing is computed on the sorted focal planes; it
\* succeeds if and only if every consecutive difference agrees with the
\* first one within the threshold and raises the non-uniform-spacing error
\* otherwise; on success it is the first difference (in mm), and 0 for a
\* single plane.
C18_DifferencesAgreeWithFirst ==
    (Called("spacing") /\ call[1].focal_planes # <<>>) =>
        LET o == call[1].outcome
        IN  IF Len(SortedPlanes) = 1 THEN Returns(o, Fraction(0, 1))
            ELSE IF \A i \in Differences :
                       Abs(Difference(1) - Difference(i))
                         <= focal_plane_distance_threshold
            THEN Returns(o, Fraction(Difference(1), 1000))
            ELSE Raises(o, "NotImplementedError: non-equal spacing")

C18_Witness ==
    /\ Called("spacing")
    /\ Len(call[1].focal_planes) = MaxPlanes
    /\ call[1].focal_planes # SortedPlanes
    /\ call[1].outcome.ok
    /\ \E i, j \in Differences :
          Abs(Difference(i) - Difference(j)) > focal_plane_distance_threshold

---------------------------------------------------------------------------
(* Claims on as_tiled_full *)

TiledFullCalled == Called("as_tiled_full")
TiledFullReturned == TiledFullCalled /\ call[1].outcome.ok
Returned == call[1].outcome.value.dataset

\* the image size of the source: the size it declares, or what its image_size
\* field reads from its stored attributes
OriginalImageSize == ImageSizeOf(wsi, <<>>, strict).out

\* C17: the dataset returned by as_tiled_full stores NumberOfFrames =
\* max(area of ceil(tiled_size / scale), 1) x |focal_planes| x
\* |optical_paths|, TotalPixelMatrixFocalPlanes = |focal_planes|,
\* NumberOfOpticalPaths = |optical_paths|, and TotalPixelMatrixColumns and
\* TotalPixelMatrixRows = max(ceil(original image width and height / scale), 1)
C17_TiledFullNumbers ==
    TiledFullReturned =>
        /\ Returned["NumberOfFrames"] =
               <<Max(Area(CeilDivInt(call[1].tiled_size, call[1].scale)), 1)
                   * Len(call[1].focal_planes) * Len(call[1].optical_paths)>>
        /\ Returned["TotalPixelMatrixFocalPlanes"] =
               <<Len(call[1].focal_planes)>>
        /\ Returned["NumberOfOpticalPaths"] = <<Len(call[1].optical_paths)>>
        /\ \E original \in {DeclaredSize} \cup
                   (IF OriginalImageSize.ok THEN {OriginalImageSize.value}
                    ELSE {}) :
               /\ Returned["TotalPixelMatrixColumns"] =
                      <<Max(CeilDivInt(original, call[1].scale).width, 1)>>
               /\ Returned["TotalPixelMatrixRows"] =
                      <<Max(CeilDivInt(original, call[1].scale).height, 1)>>

\* C19: as_tiled_full called with an empty list of focal planes raises and
\* returns no dataset, whatever the other arguments are
C19_EmptyFocalPlanesRaise ==
    (TiledFullCalled /\ call[1].focal_planes = <<>>) => ~call[1].outcome.ok

\* an as_tiled_full with no focal plane has raised, on a source from which a
\* single focal plane gives a dataset
C19_Witness ==
    /\ TiledFullCalled
    /\ call[1].focal_planes = <<>>
    /\ ~call[1].outcome.ok
    /\ AsTiledFull(wsi, cache, <<0>>, call[1].optical_paths,
                   call[1].tiled_size, call[1].scale, strict).ok

\* C20: every dataset returned by as_tiled_full is marked TILED_FULL, has no
\* per-frame functional groups, and has a shared functional group whose plane
\* position is the first focal plane given
C20_TiledFullShape ==
    TiledFullReturned =>
        /\ GetAttr(Returned, "DimensionOrganizationType") = <<"TILED_FULL">>
        /\ ~Contains(Returned, PER_FRAME)
        /\ Contains(Returned, SHARED)
        /\ Contains(Returned[SHARED][1], "PlanePositionSlideSequence")
        /\ Returned[SHARED][1]["PlanePositionSlideSequence"][1]
               .ZOffsetInSlideCoordinateSystem = call[1].focal_planes[1]

\* a SPARSE source with per-frame groups and no shared group has given a
\* dataset for focal planes whose first is not at 0
C20_Witness ==
    /\ TiledFullReturned
    /\ Contains(wsi, PER_FRAME)
    /\ ~Contains(wsi, "DimensionOrganizationType")
    /\ ~Contains(wsi, SHARED)
    /\ call[1].focal_planes = <<1, 0>>

---------------------------------------------------------------------------
(* Claims on create_instance_dataset and on the source of a copy *)

Created == Called("create_instance_dataset") /\ call[1].outcome.ok
Instance == call[1].outcome.value

\* C21: in the dataset made by create_instance_dataset the image type is
\* ORIGINAL, PRIMARY, the image type given, and NONE exactly when the image
\* type is VOLUME and the pyramid index is 0, RESAMPLED in every other case
C21_Descriptor ==
    Created =>
        Instance["ImageType"] =
            <<<<"ORIGINAL", "PRIMARY", call[1].image_type,
                IF call[1].image_type = "VOLUME"
                   /\ call[1].pyramid_index # <<>>
                   /\ call[1].pyramid_index[1] = 0
                THEN "NONE" ELSE "RESAMPLED">>>>

\* a VOLUME instance made without a pyramid index is marked RESAMPLED
C21_Witness ==
    /\ Created
    /\ call[1].image_type = "VOLUME"
    /\ call[1].pyramid_index = <<>>
    /\ Instance["ImageType"][1][4] = "RESAMPLED"

NoSpacing == call[1].image_data.pixel_spacing = <<>>

C22_VolumeNeedsSpacing ==
    (Called("create_instance_dataset") /\ call[1].image_type = "VOLUME"
     /\ NoSpacing) => ~call[1].outcome.ok

C22_SpacingCarried ==
    (Created /\ ~NoSpacing) =>
        /\ Contains(Instance, SHARED)
        /\ Instance[SHARED][1][MEASURES][1]["PixelSpacing"] =
               <<<<call[1].image_data.pixel_spacing[1].width,
                   call[1].image_data.pixel_spacing[1].height>>>>
        /\ Instance["ImagedVolumeWidth"] =
               <<call[1].image_data.image_size.width
                   * call[1].image_data.pixel_spacing[1].width>>
        /\ Instance["ImagedVolumeHeight"] =
               <<call[1].image_data.image_size.height
                   * call[1].image_data.pixel_spacing[1].height>>

VolumeNames ==
    {SHARED, "ImagedVolumeWidth", "ImagedVolumeHeight", "ImagedVolumeDepth"}

\* C22 as stated: create_instance_dataset fails for VOLUME without a pixel
\* spacing; for LABEL and OVERVIEW without one the result has no shared
\* functional group and no imaged-volume width, height or depth; with a pixel
\* spacing the result carries it and width and height = image size x spacing
C22_NoSpacingNoVolume ==
    /\ C22_VolumeNeedsSpacing
    /\ C22_SpacingCarried
    /\ (Created /\ NoSpacing) =>
           \A name \in VolumeNames : ~Contains(Instance, name)

\* C22, amended: without a pixel spacing the call sets none of these
\* attributes, so the result has them exactly as the base dataset had them
C22_NoSpacingSetsNoVolume ==
    /\ C22_VolumeNeedsSpacing
    /\ C22_SpacingCarried
    /\ (Created /\ NoSpacing) =>
           \A name \in VolumeNames :
               /\ Contains(Instance, name) = Contains(base_dataset, name)
               /\ Contains(base_dataset, name) =>
                      Instance[name] = base_dataset[name]

\* a LABEL instance made without a pixel spacing from a base dataset that
\* has a shared functional group
C22_Witness ==
    /\ Created
    /\ NoSpacing
    /\ call[1].image_type = "LABEL"
    /\ Contains(base_dataset, SHARED)
    /\ Contains(Instance, SHARED)

Lossy(flag, method) ==
    /\ Instance["LossyImageCompression"] = <<flag>>
    /\ Instance["LossyImageCompressionMethod"] = <<method>>

EightBits ==
    /\ Instance["BitsAllocated"] = <<8>>
    /\ Instance["BitsStored"] = <<8>>
    /\ Instance["HighBit"] = <<7>>

C23_Table ==
    /\ (Called("create_instance_dataset")
        /\ call[1].image_data.transfer_syntax \notin
               {"JPEGBaseline8Bit", "JPEG2000", "JPEG2000Lossless"})
           => ~call[1].outcome.ok
    /\ Created =>
           /\ EightBits
           /\ call[1].image_data.transfer_syntax = "JPEGBaseline8Bit" =>
                  Lossy("01", "ISO_10918_1")
           /\ call[1].image_data.transfer_syntax = "JPEG2000" =>
                  Lossy("01", "ISO_15444_1")
           /\ call[1].image_data.transfer_syntax = "JPEG2000Lossless" =>
                  Instance["LossyImageCompression"] = <<"00">>

LossyNames == {"LossyImageCompressionMethod", "LossyImageCompressionRatio"}

C26_SourceUnchanged ==
    [][call' # call =>
          /\ wsi' = wsi
          /\ cache' = cache
          /\ base_dataset' = base_dataset
          /\ (call'[1].op = "create_instance_dataset" /\ call'[1].outcome.ok)
                 => GetAttr(call'[1].outcome.value, "SOPInstanceUID")
                        # GetAttr(base_dataset, "SOPInstanceUID")]_vars

\* create_instance_dataset has made an instance from a base dataset that has
\* an instance identifier and a shared functional group
C26_Witness ==
    /\ Created
    /\ Contains(base_dataset, "SOPInstanceUID")
    /\ Contains(base_dataset, SHARED)
    /\ ~NoSpacing

---------------------------------------------------------------------------
(* Claims on check_duplicate_dataset *)

InstanceUidOf(i) == datasets[i]["SOPInstanceUID"][1]

\* the datasets whose instance identifier is that of a dataset before them
Duplicates ==
    {i \in 1..Len(datasets) : \E j \in 1..(i - 1) :
        InstanceUidOf(j) = InstanceUidOf(i)}

FirstDuplicate == CHOOSE i \in Duplicates : \A k \in Duplicates : i <= k

\* C24: check_duplicate_dataset raises the duplicate-identifier error exactly
\* when two datasets of the list share an instance identifier; the dataset
\* it reports is the first whose identifier was seen before, and the
\* identifier in the error is that of both offending datasets
C24_DuplicateRaises ==
    Called("check_duplicate_dataset") =>
        IF Duplicates = {} THEN call[1].outcome = Return(<<>>)
        ELSE /\ ~call[1].outcome.ok
             /\ call[1].outcome.value.error = "WsiDicomUidDuplicateError"
             /\ call[1].outcome.value.caller = call[1].caller
             /\ call[1].outcome.value.duplicate.instance =
                    InstanceUidOf(FirstDuplicate)
             /\ \E j \in 1..(FirstDuplicate - 1) :
                    InstanceUidOf(j) =
                        call[1].outcome.value.duplicate.instance

\* the check has raised for a list with two pairs of duplicates, the first
\* duplicate being of another identifier than the last
C24_Witness ==
    /\ Called("check_duplicate_dataset")
    /\ ~call[1].outcome.ok
    /\ Cardinality(Duplicates) = 2
    /\ \E i \in Duplicates : InstanceUidOf(i) # InstanceUidOf(FirstDuplicate)

---------------------------------------------------------------------------
(* Claims on attribute writes and cached derived fields *)

\* the derived field op, computed from the attributes now stored
Computed(op) ==
    CASE op = "frame_count" -> FrameCountOf(wsi, <<>>, strict).out
      [] op = "tile_type" -> TileTypeOf(wsi, <<>>, strict).out
      [] op = "tile_size" -> TileSizeOf(wsi, <<>>).out
      [] op = "image_size" -> ImageSizeOf(wsi, <<>>, strict).out

\* C25: after any attribute writes and reads of derived fields, a read of
\* frame_count, tile_type, tile_size or image_size returns the value computed
\* from the attributes stored at the time of the read, never a value kept
\* from before a write
C25_NeverStale ==
    (call # <<>> /\ call[1].op # "__setattr__") =>
        call[1].outcome = Computed(call[1].op)

---------------------------------------------------------------------------
(* Claims on the extended depth of field and the slice thickness *)

\* the stored attribute, or the default the table gives it
StoredOrDefault(name) ==
    IF GetAttr(wsi, name) # <<>> THEN wsi[name][1]
    ELSE WSI_ATTRIBUTES[name].default[1]

ExtendedDepth == GetAttr(wsi, "ExtendedDepthOfField") = <<"YES">>

\* C27: ext_depth_of_field_plane_distance returns the distance between focal
\* planes when ExtendedDepthOfField is "YES" and none when it is not;
\* ext_depth_of_field returns the enabled flag and ext_depth_of_field_planes
\* the number of planes
C27_ThreeComponents ==
    (call # <<>> /\ call[1].outcome.ok) =>
        /\ call[1].op = "ext_depth_of_field" =>
               call[1].outcome.value = PyBool(ExtendedDepth)
        /\ call[1].op = "ext_depth_of_field_planes" =>
               call[1].outcome.value =
                   IF ExtendedDepth
                   THEN PyNumber(StoredOrDefault("NumberOfFocalPlanes"))
                   ELSE PyNone
        /\ call[1].op = "ext_depth_of_field_plane_distance" =>
               call[1].outcome.value =
                   IF ExtendedDepth
                   THEN PyNumber(StoredOrDefault("DistanceBetweenFocalPlanes"))
                   ELSE PyNone

\* the slice thickness stored in the pixel measures, <<>> if there is none
StoredThickness ==
    IF Contains(wsi, SHARED)
    THEN GetAttr(wsi[SHARED][1][MEASURES][1], "SliceThickness")
    ELSE <<>>

\* C29: slice_thickness returns the SliceThickness of the pixel measures when
\* it is stored; when it is not and the depth of the imaged volume is known,
\* the depth divided by the number of focal planes; none only when both are
\* absent
C29_SliceThickness ==
    (Called("slice_thickness") /\ call[1].outcome.ok) =>
        call[1].outcome.value =
            IF StoredThickness # <<>> THEN StoredThickness
            ELSE IF GetAttr(wsi, "ImagedVolumeDepth") # <<>>
            THEN <<Fraction(wsi["ImagedVolumeDepth"][1],
                            StoredOrDefault("TotalPixelMatrixFocalPlanes"))>>
            ELSE <<>>

---------------------------------------------------------------------------
(* Claims on the dataset as_tiled_full returns, read afresh *)

\* the source reads its image size, and the tiled size given is that of the
\* source: its image size in tiles
SourceTiling ==
    /\ OriginalImageSize.ok
    /\ call[1].tiled_size = CeilDiv(OriginalImageSize.value, DeclaredTile)

\* C28: the attributes stored by as_tiled_full are consistent under the rule
\* of image_size: for a valid source, with one or more focal planes and
\* optical paths, a dataset of the returned attributes with nothing cached
\* has tile type FULL and reads image_size without error
C28_FreshViewReads ==
    (TiledFullReturned /\ SourceTiling) =>
        /\ TileTypeOf(Returned, <<>>, strict).out = Return("TILED_FULL")
        /\ ImageSizeOf(Returned, <<>>, strict).out.ok

---------------------------------------------------------------------------
(* Claims on the OpticalManager *)

\* the optical paths of the files, in file order
Occurrences == Concat(files)

IdentifierAt(i) == Occurrences[i]["OpticalPathIdentifier"][1]

\* the first optical path of the files that has the identifier
FirstOccurrence(identifier) ==
    Occurrences[CHOOSE i \in 1..Len(Occurrences) :
                    /\ IdentifierAt(i) = identifier
                    /\ \A j \in 1..(i - 1) : IdentifierAt(j) # identifier]

Held == manager[1].optical_paths

=============================================================================
